---- MODULE Spec2Model ----
(***************************************************************************)
(* Position ledger, trade application and strategy runner of the scalping  *)
(* trainer (src/position_service.py, src/main.py, src/ai_trading_engine.py,*)
(* src/ai_trading_service.py, src/real_trading_service.py,                 *)
(* src/multi_symbol_service.py).                                           *)
(*                                                                         *)
(* Prices, quantities and PnL are Python floats in the source: binary      *)
(* floating point, every operation rounded to nearest, ties to even.  The  *)
(* model keeps that format and rounding rule with a significand of         *)
(* MantBits bits and a smallest step of 2^-FracBits; a float is the        *)
(* integer number of such steps.                                           *)
(*                                                                         *)
(* Three specifications share the variables:                               *)
(*   Spec        the API handlers of the ledger, one request at a time;    *)
(*   RunnerSpec  the engine: start, stop, loop iterations, the date;       *)
(*   ConcSpec    two requests on worker threads, each reading the position *)
(*               row before it commits what it computed from it.           *)
(***************************************************************************)
EXTENDS Integers, Sequences, FiniteSets, TLC

\* ------------------------------------------------------------------ bounds
MantBits == 6
FracBits == 2
MaxSteps == 2
\* fraction bits a quotient of two prices keeps beyond FracBits
RatioBits == 10

\* ------------------------------------------------------ float arithmetic
RECURSIVE Pow2(_)
Pow2(n) == IF n = 0 THEN 1 ELSE 2 * Pow2(n - 1)

Unit == Pow2(FracBits)

\* the float whose value is the integer k
Num(k) == k * Unit

Abs(x) == IF x < 0 THEN -x ELSE x

\* a / d rounded to the nearest integer, ties to the even one (a >= 0, d > 0)
RoundHalfEven(a, d) ==
    LET f == a \div d
        r == a % d
    IN  IF 2 * r < d THEN f
        ELSE IF 2 * r > d THEN f + 1
        ELSE IF f % 2 = 0 THEN f ELSE f + 1

\* significands are below 2^MantBits
MantLimit == Pow2(MantBits)

\* the smallest s = d * 2^k with a / s < 2^MantBits
RECURSIVE Scale(_, _)
Scale(a, s) == IF a \div s < MantLimit THEN s ELSE Scale(a, 2 * s)

\* the float nearest to the rational n / d (d > 0)
Fl(n, d) ==
    LET a == Abs(n)
        s == Scale(a, d)
        m == RoundHalfEven(a, s) * (s \div d)
    IN  IF n < 0 THEN -m ELSE m

\* float(k) for an integer k
Float(k) == Fl(k * Unit, 1)

FAdd(x, y) == Fl(x + y, 1)
FSub(x, y) == Fl(x - y, 1)
FMul(x, y) == Fl(x * y, Unit)
\* y # 0: Python raises ZeroDivisionError otherwise
FDiv(x, y) == IF y < 0 THEN Fl((-x) * Unit, -y) ELSE Fl(x * Unit, y)

\* A return (current - entry) / entry is a small number that a Python float
\* holds with its full significand: the quotient is kept in steps of
\* 2^-RatioBits, and its product with a float is again a float.
Fine == Pow2(RatioBits)
FRatio(x, y) == IF y < 0 THEN Fl((-x) * Fine, -y) ELSE Fl(x * Fine, y)
FScale(r, y) == Fl(r * y, Fine)

\* ------------------------------------------------------------ data model
Symbols == {"BTCUSDT", "ETHUSDT"}
Sides == {"BUY", "SELL"}

\* no row of the positions table for the symbol (get_position returns None)
NoPosition ==
    [present |-> FALSE, side |-> "none", qty |-> 0, entry_price |-> 0,
     latest_price |-> 0, unrealized_pnl |-> 0, is_active |-> FALSE]

\* the row a full close leaves behind (qty 0, side None, entry 0)
ClosedPosition ==
    [present |-> TRUE, side |-> "none", qty |-> 0, entry_price |-> 0,
     latest_price |-> Num(100), unrealized_pnl |-> 0, is_active |-> TRUE]

NoTrade == [saved |-> FALSE, symbol |-> "", side |-> "", price |-> 0, qty |-> 0, pnl |-> 0]

Opposite(side) == IF side = "BUY" THEN "SELL" ELSE "BUY"

VARIABLES
    positions,   \* the positions table: symbol -> row (or NoPosition)
    ntrades,     \* number of rows of the trades table
    trades,      \* the rows of the trades table, in the order they were saved
    last,        \* the last handler that ran: its inputs, the row it found, what it returned and saved
    steps,       \* API handlers run so far
    \* --- the strategy runner (AITradingEngine / AITradingService)
    configs,            \* the ai_trading_configs table: config_id -> row
    mode,               \* TradingManager.config.mode
    running,            \* the engine task exists and has not been cancelled
    active_strategies,  \* engine.active_strategies: config_id -> runtime state
    today,              \* what date.today() returns: the date in the host's time zone
    tz,                 \* the host's time zone
    utc_today,          \* the UTC date
    nlogs,              \* config_id -> number of rows of ai_trading_logs of the strategy
    entries,            \* config_id -> date -> entries the runner made, over the whole run
    loaded_entries,     \* config_id -> date -> entries the runner made since the strategy was loaded
    utc_entries,        \* config_id -> UTC date -> entries the runner made since the strategy was loaded
    tick,               \* config_id -> what _process_strategy did on the last tick
    changes,            \* the position changes of the last tick, in order
    starts,             \* times the engine was started
    ticks,              \* iterations of the engine's loop so far
    trace,              \* the steps of the last iteration, in the order they were taken
    pause,              \* how the last iteration ended: the sleep it went into
    resumed,            \* the sleep the last iteration came out of
    awaiting,           \* the strategy whose candles the engine's task awaits (0: none)
    \* --- two callers of the ledger running concurrently
    pc,          \* caller -> "idle", "read" (position read, nothing written) or "done"
    request,     \* caller -> the operation it applies
    snapshot,    \* caller -> the position row its session read
    saved_pnl,   \* caller -> the realized PnL it saved on its trade
    positions0,  \* the positions table before either caller started
    \* --- the signal engine (AITradingStrategy and its three variants)
    strategy,    \* the strategy object: its variant and the config dict it was created with
    market,      \* the candles handed to analyze_market and the sub-rules they fire
    analysis,    \* what analyze_market returned
    \* --- the technical indicators (TechnicalIndicators)
    chart,       \* the candles the indicators are computed from, oldest first
    indicators,  \* what the indicators returned for the chart
    quotients,   \* the quotients _analyze_signals took of the last candle, or the exception of one
    \* --- the engine's tasks (AITradingService's class attributes)
    engine_tasks,        \* task -> "none", "running" or "cancelled": the tasks created for start_engine
    shared_engine_task,  \* AITradingService._shared_engine_task: a task, or 0 for None
    reply                \* the status the last start or stop call answered

ledger_vars == <<positions, ntrades, trades, last, steps>>
runner_vars == <<configs, mode, running, active_strategies, today, tz, utc_today, nlogs,
                 entries, loaded_entries, utc_entries, tick, changes, starts, ticks,
                 trace, pause, resumed, awaiting>>
conc_vars == <<pc, request, snapshot, saved_pnl, positions0>>
signal_vars == <<strategy, market, analysis, chart, indicators, quotients>>
service_vars == <<engine_tasks, shared_engine_task, reply>>
vars == <<ledger_vars, runner_vars, conc_vars, signal_vars, service_vars>>

\* ------------------------------------------------------- PositionService
get_position(table, symbol) ==
    IF table[symbol].present /\ table[symbol].is_active THEN table[symbol] ELSE NoPosition

\* (price - entry) * qty for BUY, (entry - price) * qty otherwise
pnl_of(side, entry_price, price, qty) ==
    IF side = "BUY" THEN FMul(FSub(price, entry_price), qty)
    ELSE FMul(FSub(entry_price, price), qty)

create_or_update_position(position, side, qty, entry_price, latest_price) ==
    LET row == IF ~position.present
               THEN [present |-> TRUE, side |-> side, qty |-> qty,
                     entry_price |-> entry_price,
                     latest_price |-> IF latest_price # 0 THEN latest_price ELSE entry_price,
                     unrealized_pnl |-> 0, is_active |-> TRUE]
               ELSE [position EXCEPT !.side = side, !.qty = qty,
                                     !.entry_price = entry_price,
                                     !.latest_price = IF latest_price # 0 THEN latest_price ELSE @]
    IN  IF latest_price # 0 /\ side # "none" /\ qty > 0
        THEN [row EXCEPT !.unrealized_pnl = pnl_of(side, entry_price, latest_price, qty)]
        ELSE row

\* mutant: the pnl of a long position is written whatever the side
update_position_price_mLongOnly(position, latest_price) ==
    IF ~position.present THEN position
    ELSE LET row == [position EXCEPT !.latest_price = latest_price]
         IN  IF row.side # "none" /\ row.qty > 0
             THEN [row EXCEPT !.unrealized_pnl =
                       FMul(FSub(latest_price, row.entry_price), row.qty)]
             ELSE row

update_position_price(position, latest_price) ==
    IF ~position.present THEN position
    ELSE LET row == [position EXCEPT !.latest_price = latest_price]
         IN  IF row.side # "none" /\ row.qty > 0
             THEN [row EXCEPT !.unrealized_pnl =
                       pnl_of(row.side, row.entry_price, latest_price, row.qty)]
             ELSE row

\* a close request's quantity: absent (None) or a float
NoQty == [given |-> FALSE, qty |-> 0]
SomeQty(q) == [given |-> TRUE, qty |-> q]

close_position(position, req) ==
    IF ~position.present \/ position.qty <= 0 THEN position
    ELSE IF ~req.given \/ req.qty >= position.qty
         THEN [position EXCEPT !.qty = 0, !.side = "none",
                               !.entry_price = 0, !.unrealized_pnl = 0]
         ELSE [position EXCEPT !.qty = FSub(position.qty, req.qty)]

\* --------------------------------------------- trade application (main.py)
\* mutant: the flat test forgets "position.qty == 0"
is_flat_mNoQtyTest(position) ==
    ~position.present \/ position.side = "none"

\* "if not position or position.qty == 0 or position.side is None"
is_flat(position) ==
    ~position.present \/ position.qty = 0 \/ position.side = "none"

\* mutant: an existing row keeps its old entry price
open_new_mKeepsEntry(position, side, price, qty) ==
    [position |-> create_or_update_position(position, side, qty,
                      IF position.present THEN position.entry_price ELSE price, price),
     pnl |-> 0, branch |-> "open"]

open_new(position, side, price, qty) ==
    [position |-> create_or_update_position(position, side, qty, price, price),
     pnl |-> 0, branch |-> "open"]

\* mutant: the entry price is overwritten by the trade price instead of averaged
accumulate_mNoAverage(position, side, price, qty) ==
    [position |-> create_or_update_position(position, side, FAdd(position.qty, qty),
                                            price, price),
     pnl |-> 0, branch |-> "accumulate"]

accumulate(position, side, price, qty) ==
    LET new_qty == FAdd(position.qty, qty)
        new_entry_price ==
            FDiv(FAdd(FMul(position.entry_price, position.qty), FMul(price, qty)), new_qty)
    IN  IF new_qty > 0
        THEN [position |-> create_or_update_position(position, side, new_qty,
                                                     new_entry_price, price),
              pnl |-> 0, branch |-> "accumulate"]
        ELSE [position |-> position, pnl |-> 0, branch |-> "none"]

\* mutant: the PnL sign follows the incoming side instead of the position's
partial_close_mIncomingSide(position, side, price, qty) ==
    [position |-> create_or_update_position(position, position.side,
                                            FSub(position.qty, qty),
                                            position.entry_price, price),
     pnl |-> pnl_of(side, position.entry_price, price, qty),
     branch |-> "partial_close"]

partial_close(position, side, price, qty) ==
    [position |-> create_or_update_position(position, position.side,
                                            FSub(position.qty, qty),
                                            position.entry_price, price),
     pnl |-> pnl_of(position.side, position.entry_price, price, qty),
     branch |-> "partial_close"]

\* mutant: a full close handled like a partial one (the row keeps its side)
full_close_mKeepsSide(position, side, price, qty) ==
    [position |-> create_or_update_position(position, position.side,
                                            FSub(position.qty, qty),
                                            position.entry_price, price),
     pnl |-> pnl_of(position.side, position.entry_price, price, qty),
     branch |-> "full_close"]

full_close(position, side, price, qty) ==
    [position |-> close_position(position, SomeQty(qty)),
     pnl |-> pnl_of(position.side, position.entry_price, price, qty),
     branch |-> "full_close"]

\* mutant: the PnL is realized on the whole incoming quantity
flip_mWholeQty(position, side, price, qty) ==
    [position |-> create_or_update_position(position, side, FSub(qty, position.qty),
                                            price, price),
     pnl |-> pnl_of(position.side, position.entry_price, price, qty),
     branch |-> "flip"]

\* mutant: the remainder is opened at the entry price of the closed position
flip_mKeepsEntry(position, side, price, qty) ==
    [position |-> create_or_update_position(position, side, FSub(qty, position.qty),
                                            position.entry_price, price),
     pnl |-> pnl_of(position.side, position.entry_price, price, position.qty),
     branch |-> "flip"]

flip(position, side, price, qty) ==
    LET close_qty == position.qty
        remaining == FSub(qty, close_qty)
    IN  [position |-> create_or_update_position(position, side, remaining, price, price),
         pnl |-> pnl_of(position.side, position.entry_price, price, close_qty),
         branch |-> "flip"]

update_position_on_trade(position, side, price, qty) ==
    IF is_flat(position) THEN open_new(position, side, price, qty)
    ELSE IF side = position.side THEN accumulate(position, side, price, qty)
    ELSE IF qty < position.qty THEN partial_close(position, side, price, qty)
    ELSE IF qty = position.qty THEN full_close(position, side, price, qty)
    ELSE flip(position, side, price, qty)

\* ------------------------- the copy in RealTradingService (no new_qty guard)
_update_position_on_real_trade(position, side, price, quantity) ==
    IF ~position.present \/ position.qty = 0 \/ position.side = "none"
    THEN [position |-> create_or_update_position(position, side, quantity, price, price),
          pnl |-> 0, branch |-> "open"]
    ELSE IF side = position.side
    THEN LET new_qty == FAdd(position.qty, quantity)
             new_entry_price ==
                 FDiv(FAdd(FMul(position.entry_price, position.qty),
                           FMul(price, quantity)), new_qty)
         IN  [position |-> create_or_update_position(position, side, new_qty,
                                                     new_entry_price, price),
              pnl |-> 0, branch |-> "accumulate"]
    ELSE IF quantity < position.qty
    THEN [position |-> create_or_update_position(position, position.side,
                                                 FSub(position.qty, quantity),
                                                 position.entry_price, price),
          pnl |-> pnl_of(position.side, position.entry_price, price, quantity),
          branch |-> "partial_close"]
    ELSE IF quantity = position.qty
    THEN [position |-> close_position(position, SomeQty(quantity)),
          pnl |-> pnl_of(position.side, position.entry_price, price, quantity),
          branch |-> "full_close"]
    ELSE [position |-> create_or_update_position(position, side,
                                                 FSub(quantity, position.qty),
                                                 price, price),
          pnl |-> pnl_of(position.side, position.entry_price, price, position.qty),
          branch |-> "flip"]

\* ------------------------------------- the copy in MultiSymbolService
_update_position_on_trade(position, side, price, quantity) ==
    IF ~position.present \/ position.qty = 0 \/ position.side = "none"
    THEN [position |-> create_or_update_position(position, side, quantity, price, price),
          pnl |-> 0, branch |-> "open"]
    ELSE IF side = position.side
    THEN LET new_qty == FAdd(position.qty, quantity)
             new_entry_price ==
                 FDiv(FAdd(FMul(position.entry_price, position.qty),
                           FMul(price, quantity)), new_qty)
         IN  [position |-> create_or_update_position(position, side, new_qty,
                                                     new_entry_price, price),
              pnl |-> 0, branch |-> "accumulate"]
    ELSE IF quantity < position.qty
    THEN [position |-> create_or_update_position(position, position.side,
                                                 FSub(position.qty, quantity),
                                                 position.entry_price, price),
          pnl |-> pnl_of(position.side, position.entry_price, price, quantity),
          branch |-> "partial_close"]
    ELSE IF quantity = position.qty
    THEN [position |-> close_position(position, SomeQty(quantity)),
          pnl |-> pnl_of(position.side, position.entry_price, price, quantity),
          branch |-> "full_close"]
    ELSE [position |-> create_or_update_position(position, side,
                                                 FSub(quantity, position.qty),
                                                 price, price),
          pnl |-> pnl_of(position.side, position.entry_price, price, position.qty),
          branch |-> "flip"]

save_trade(symbol, side, price, qty, pnl) ==
    [saved |-> TRUE, symbol |-> symbol, side |-> side, price |-> price, qty |-> qty, pnl |-> pnl]

\* ------------------------------------------------------- request inputs
Prices == {Num(0), Num(100), Num(110)}
Qtys == {Num(0), Num(10), Num(15), Num(16)}
\* the quantity an exchange reports for a filled order
FilledQtys == {Num(10), Num(15), Num(16)}
CloseQtys == {NoQty} \cup {SomeQty(q) : q \in Qtys}
\* the symbols the sequential ledger specification trades
LedgerSymbols == {"BTCUSDT"}

NoHandler ==
    [op |-> "none", symbol |-> "", pre |-> NoPosition, side |-> "", price |-> 0,
     qty |-> 0, given |-> FALSE, pnl |-> 0, branch |-> "none", trade |-> NoTrade]

\* a trade handler's record: what it was given, found, returned and saved
Handled(op, symbol, pre, side, price, qty, r) ==
    [op |-> op, symbol |-> symbol, pre |-> pre, side |-> side, price |-> price,
     qty |-> qty, given |-> TRUE, pnl |-> r.pnl, branch |-> r.branch,
     trade |-> save_trade(symbol, side, price, qty, r.pnl)]

\* ------------------------------------------------------------- handlers
\* POST /api/trade
create_trade(symbol, side, price, qty) ==
    LET pre == get_position(positions, symbol)
        r == update_position_on_trade(pre, side, price, qty)
    IN  /\ steps < MaxSteps
        /\ positions' = [positions EXCEPT ![symbol] = r.position]
        /\ ntrades' = ntrades + 1
        /\ last' = Handled("trade", symbol, pre, side, price, qty, r)
        /\ trades' = Append(trades, last'.trade)
        /\ steps' = steps + 1
        /\ UNCHANGED <<runner_vars, conc_vars, signal_vars, service_vars>>

\* POST /api/trading/order, the exchange reporting the order FILLED at
\* (filled_price, filled_quantity)
place_real_order(symbol, side, filled_price, filled_quantity) ==
    LET pre == get_position(positions, symbol)
        r == _update_position_on_real_trade(pre, side, filled_price,
                                                              filled_quantity)
    IN  /\ steps < MaxSteps
        /\ positions' = [positions EXCEPT ![symbol] = r.position]
        /\ ntrades' = ntrades + 1
        /\ last' = Handled("real_order", symbol, pre, side, filled_price, filled_quantity, r)
        /\ trades' = Append(trades, last'.trade)
        /\ steps' = steps + 1
        /\ UNCHANGED <<runner_vars, conc_vars, signal_vars, service_vars>>

\* POST /api/symbols/order for an active symbol
place_multi_symbol_order(symbol, side, quantity, price) ==
    LET pre == get_position(positions, symbol)
        r == _update_position_on_trade(pre, side, price, quantity)
    IN  /\ steps < MaxSteps
        /\ positions' = [positions EXCEPT ![symbol] = r.position]
        /\ ntrades' = ntrades + 1
        /\ last' = Handled("multi_order", symbol, pre, side, price, quantity, r)
        /\ trades' = Append(trades, last'.trade)
        /\ steps' = steps + 1
        /\ UNCHANGED <<runner_vars, conc_vars, signal_vars, service_vars>>

\* POST /api/position/close with a price available
api_close_position(symbol, price, req) ==
    LET before == get_position(positions, symbol)
        prev_side == before.side
        prev_qty == before.qty
        closed_qty == IF ~req.given \/ req.qty >= prev_qty THEN prev_qty ELSE req.qty
        realized == pnl_of(prev_side, before.entry_price, price, closed_qty)
        close_side == IF prev_side = "BUY" THEN "SELL"
                      ELSE IF prev_side = "SELL" THEN "BUY" ELSE "CLOSE"
    IN  /\ steps < MaxSteps
        /\ before.present /\ before.qty > 0
        /\ positions' = [positions EXCEPT ![symbol] = close_position(before, SomeQty(closed_qty))]
        /\ ntrades' = ntrades + 1
        /\ last' = [op |-> "close", symbol |-> symbol, pre |-> before, side |-> close_side,
                    price |-> price, qty |-> req.qty, given |-> req.given, pnl |-> realized,
                    branch |-> IF closed_qty >= prev_qty THEN "full_close" ELSE "partial_close",
                    trade |-> save_trade(symbol, close_side, price, closed_qty, realized)]
        /\ trades' = Append(trades, last'.trade)
        /\ steps' = steps + 1
        /\ UNCHANGED <<runner_vars, conc_vars, signal_vars, service_vars>>

\* POST /api/symbols/close.  The handler reads position.side after
\* PositionService.close_position has changed the same row object.
close_symbol_position(symbol, req) ==
    LET position == get_position(positions, symbol)
        close_qty == IF req.given /\ req.qty # 0 THEN req.qty ELSE position.qty
        realized_pnl == pnl_of(position.side, position.entry_price,
                               position.latest_price, close_qty)
        closed == close_position(position, SomeQty(close_qty))
        close_side == IF closed.side = "BUY" THEN "SELL" ELSE "BUY"
    IN  /\ steps < MaxSteps
        /\ position.present /\ position.qty > 0
        /\ positions' = [positions EXCEPT ![symbol] = closed]
        /\ ntrades' = ntrades + 1
        /\ last' = [op |-> "close_symbol", symbol |-> symbol, pre |-> position,
                    side |-> close_side, price |-> position.latest_price, qty |-> req.qty,
                    given |-> req.given, pnl |-> realized_pnl,
                    branch |-> IF close_qty >= position.qty THEN "full_close"
                               ELSE "partial_close",
                    trade |-> save_trade(symbol, close_side, closed.latest_price,
                                         close_qty, realized_pnl)]
        /\ trades' = Append(trades, last'.trade)
        /\ steps' = steps + 1
        /\ UNCHANGED <<runner_vars, conc_vars, signal_vars, service_vars>>

\* GET /api/position with a latest price known to the broadcaster
api_get_position(symbol, latest) ==
    LET pos == get_position(positions, symbol)
    IN  /\ steps < MaxSteps
        /\ latest # 0 /\ pos.present
        /\ positions' = [positions EXCEPT ![symbol] = update_position_price(pos, latest)]
        /\ last' = [NoHandler EXCEPT !.op = "price", !.symbol = symbol, !.pre = pos,
                                     !.price = latest]
        /\ steps' = steps + 1
        /\ UNCHANGED <<ntrades, trades, runner_vars, conc_vars, signal_vars, service_vars>>

\* the price feed hands a symbol's latest price to
\* PositionService.update_position_price
price_update(symbol, latest) ==
    LET pos == get_position(positions, symbol)
    IN  /\ steps < MaxSteps
        /\ positions' = [positions EXCEPT ![symbol] = update_position_price(pos, latest)]
        /\ last' = [NoHandler EXCEPT !.op = "update_position_price", !.symbol = symbol,
                                     !.pre = pos, !.price = latest]
        /\ steps' = steps + 1
        /\ UNCHANGED <<ntrades, trades, runner_vars, conc_vars, signal_vars, service_vars>>

\* ------------------------------------------------------ strategy runner
MaxStarts == 2
MaxTicks == 2

ConfigIds == {1, 2}
\* the dates the clock shows during a run, and the caps an operator configures
Dates == {0, 1}
\* the time zones a host runs in: UTC, or one east of Greenwich
TimeZones == {"UTC", "Asia/Seoul"}
Caps == {0, 1}

\* last_trade_date: None or a date
NoDate == [given |-> FALSE, date |-> 0]
SomeDate(d) == [given |-> TRUE, date |-> d]

\* last_analysis: None or the dict analyze_market returned
NoLastAnalysis == [given |-> FALSE, signal |-> "none", confidence |-> 0]
SomeAnalysis(signal, confidence) == [given |-> TRUE, signal |-> signal, confidence |-> confidence]

\* the risk levels create_strategy of ai_trading_strategies knows
RiskLevels == {"HIGH", "MEDIUM", "LOW"}

\* str.upper() on the risk levels a request can carry
upper(risk_level) ==
    IF risk_level = "high" THEN "HIGH"
    ELSE IF risk_level = "medium" THEN "MEDIUM"
    ELSE IF risk_level = "low" THEN "LOW"
    ELSE IF risk_level = "extreme" THEN "EXTREME"
    ELSE risk_level

\* a row of ai_trading_configs as AITradingService.create_strategy inserts it
AITradingConfig(is_active, max_daily_trades) ==
    [present |-> TRUE, risk_level |-> "HIGH",
     is_active |-> is_active, symbol |-> "BTCUSDT",
     max_daily_trades |-> max_daily_trades,
     position_size_usd |-> Num(800),
     leverage_min |-> Num(1), leverage_max |-> Num(2),
     confidence_threshold |-> Fl(3 * Unit, 4),
     stop_loss_pct |-> Num(2), take_profit_pct |-> Num(3),
     total_trades |-> 0, winning_trades |-> 0, total_pnl |-> 0]

\* no row of ai_trading_configs has the id
NoConfig == [AITradingConfig(FALSE, 0) EXCEPT !.present = FALSE, !.risk_level = ""]

\* no entry of engine.active_strategies for the config
NotLoaded == [loaded |-> FALSE, last_analysis |-> NoLastAnalysis, daily_trades |-> 0,
              last_trade_date |-> NoDate]
\* the entry _load_active_strategies builds
Loaded == [loaded |-> TRUE, last_analysis |-> NoLastAnalysis, daily_trades |-> 0,
           last_trade_date |-> NoDate]

\* what _process_strategy did for one strategy on a tick
NoTick == [ran |-> FALSE, counter |-> 0, outcome |-> "none", fetched |-> FALSE,
           \* the candles _get_candles returned and whether the feed raised
           ncandles |-> 0, feed_raised |-> FALSE,
           logged |-> 0, traded |-> 0,
           \* the analysis and the position row _process_trading_signal found
           signal |-> "none", confidence |-> 0, held |-> NoPosition,
           \* the rollover: whether the counter was put back to 0, the UTC
           \* date of the tick and of the strategy's tick before it
           rolled |-> FALSE, utc |-> 0, prev_utc |-> NoDate,
           \* the exit check: the row it found, its pnl_pct and what it did
           seen |-> NoPosition, pnl_pct |-> 0, exit |-> "none"]

\* the close of the latest candle and the leverage random.uniform draws
RunnerPrices == {Num(100)}
\* the prices GET /api/position finds at the broadcaster
PolledPrices == {Num(200)}
\* prices around the stop-loss and take-profit levels of a position entered at 100
BoundaryPrices == {Float(k) : k \in 96..104}
Leverages(config) == {config.leverage_min, config.leverage_max}
\* the exchange's answer to an order outside SIMULATION mode
Fills == IF mode = "SIMULATION" THEN {"none"} ELSE {"FILLED", "REJECTED"}

\* "limit": the candles _process_strategy asks the feed for
FetchLimit == 100
\* "len(candles) < 50" in _process_strategy
MinFetched == 50

\* fault: the step of the tick that raises, if one does
NoInput == [candles |-> 0, fault |-> "none", signal |-> "HOLD", confidence |-> 0, close |-> 0,
            leverage |-> 0, fill |-> "none"]

\* what the data feed and analyze_market hand one strategy on a tick: the feed
\* raises, or serves no candle, too few or all that were asked for
TickInputs(config) ==
    {[NoInput EXCEPT !.candles = FetchLimit, !.fault = "fetch"]}
    \cup {[NoInput EXCEPT !.candles = n] : n \in {0, MinFetched - 1, FetchLimit}}
    \cup {[NoInput EXCEPT !.candles = FetchLimit, !.signal = sig,
                          !.confidence = Fl(2 * Unit, 4)] : sig \in Sides}
    \cup {[candles |-> FetchLimit, fault |-> "none", signal |-> sig,
           confidence |-> Fl(3 * Unit, 4),
           close |-> price, leverage |-> lev, fill |-> fill] :
              sig \in Sides, price \in RunnerPrices,
              lev \in Leverages(config), fill \in Fills}

\* one step of an iteration of the loop: a call, a row written or an
\* exception caught
Step(what, id) == [what |-> what, config_id |-> id, signal |-> "none", confidence |-> 0]
\* the ai_trading_logs row _log_analysis writes
AnalysisLog(id, signal, confidence) ==
    [what |-> "ANALYSIS", config_id |-> id, signal |-> signal, confidence |-> confidence]

\* a tick on which something may fail: the feed raises, analyze_market raises,
\* or the analysis says HOLD or gives a signal the strategy acts on
FaultyInputs(config) ==
    {[NoInput EXCEPT !.candles = FetchLimit, !.fault = fault] : fault \in {"fetch", "analysis"}}
    \cup {[NoInput EXCEPT !.candles = FetchLimit]}
    \cup {[candles |-> FetchLimit, fault |-> "none", signal |-> sig,
           confidence |-> Fl(3 * Unit, 4),
           close |-> price, leverage |-> config.leverage_min, fill |-> "none"] :
              sig \in Sides, price \in RunnerPrices}

\* one change of a position row made by the runner
Change(op, id, pre, side, price, qty, trade, post) ==
    [op |-> op, config_id |-> id, pre |-> pre, side |-> side, price |-> price,
     qty |-> qty, trade |-> trade, post |-> post]

\* mutant: the limit test is strict
at_limit_mStrict(daily_trades, max_daily_trades) == daily_trades > max_daily_trades

\* "if strategy_info['daily_trades'] >= config.max_daily_trades"
at_limit(daily_trades, max_daily_trades) == daily_trades >= max_daily_trades

\* AITradingEngine._open_position; e is the engine's and the database's state
\* during the tick
_open_position(e, id, side, price, feed) ==
    LET config == e.configs[id]
        quantity == FDiv(config.position_size_usd, price)
        leveraged_quantity == FMul(quantity, feed.leverage)
        pre == get_position(e.positions, config.symbol)
        counted == [e EXCEPT !.active_strategies[id].daily_trades = @ + 1]
    IN  IF mode = "SIMULATION"
        THEN LET post == create_or_update_position(pre, side, leveraged_quantity,
                                                   price, price)
                 trade == save_trade(config.symbol, side, price, leveraged_quantity, 0)
             IN  [counted EXCEPT !.positions[config.symbol] = post,
                                 !.ntrades = @ + 1,
                                 !.trades = Append(@, trade),
                                 !.nlogs[id] = @ + 1,
                                 !.entries[id][today] = @ + 1,
                                 !.loaded_entries[id][today] = @ + 1,
                                 !.utc_entries[id][utc_today] = @ + 1,
                                 !.tick[id].outcome = "entry",
                                 !.tick[id].logged = @ + 1,
                                 !.tick[id].traded = @ + 1,
                                 !.trace = @ \o <<Step("trade", id), Step("ENTRY", id)>>,
                                 !.changes = Append(@, Change("entry", id, pre, side, price,
                                                        leveraged_quantity, trade, post))]
        ELSE IF feed.fill = "FILLED"
        THEN LET r == _update_position_on_real_trade(
                          pre, side, price, leveraged_quantity)
                 trade == save_trade(config.symbol, side, price, leveraged_quantity, r.pnl)
             IN  [counted EXCEPT !.positions[config.symbol] = r.position,
                                 !.ntrades = @ + 1,
                                 !.trades = Append(@, trade),
                                 !.entries[id][today] = @ + 1,
                                 !.loaded_entries[id][today] = @ + 1,
                                 !.utc_entries[id][utc_today] = @ + 1,
                                 !.tick[id].outcome = "entry",
                                 !.tick[id].traded = @ + 1,
                                 !.trace = Append(@, Step("trade", id)),
                                 !.changes = Append(@, Change("entry", id, pre, side, price,
                                                        leveraged_quantity, trade,
                                                        r.position))]
        ELSE [counted EXCEPT !.tick[id].outcome = "rejected"]

\* AITradingEngine._process_trading_signal
_process_trading_signal(e, id, feed) ==
    LET position == get_position(e.positions, e.configs[id].symbol)
        e1 == [e EXCEPT !.tick[id].held = position]
    IN  IF ~position.present \/ position.side # feed.signal
        THEN _open_position(e1, id, feed.signal, feed.close, feed)
        ELSE e1

\* mutant: only an analysis that says HOLD is logged
_log_analysis_mHoldOnly(e, id, result) ==
    IF result.signal # "HOLD" THEN e
    ELSE [e EXCEPT !.nlogs[id] = @ + 1,
                   !.tick[id].logged = @ + 1,
                   !.trace = Append(@, AnalysisLog(id, result.signal, result.confidence))]

\* AITradingEngine._log_analysis: one row of ai_trading_logs, committed
_log_analysis(e, id, result) ==
    [e EXCEPT !.nlogs[id] = @ + 1,
              !.tick[id].logged = @ + 1,
              !.trace = Append(@, AnalysisLog(id, result.signal, result.confidence))]

\* AITradingEngine._get_candles: the number of candles it returns; a fetch that
\* raises is caught and gives the empty list
_get_candles(feed) == IF feed.fault = "fetch" THEN 0 ELSE feed.candles

\* mutant: a list of 49 candles is accepted
insufficient_mOffByOne(ncandles) == ncandles = 0 \/ ncandles < MinFetched - 1

\* "if not candles or len(candles) < 50"
insufficient(ncandles) == ncandles = 0 \/ ncandles < MinFetched

\* AITradingEngine._process_strategy up to "await self._get_candles": the
\* rollover and the limit test
_process_strategy_to_fetch(e, id) ==
    LET config == e.configs[id]
        info == e.active_strategies[id]
        rolled == IF info.last_trade_date # SomeDate(today)
                  THEN [info EXCEPT !.daily_trades = 0, !.last_trade_date = SomeDate(today)]
                  ELSE info
        e1 == [e EXCEPT !.active_strategies[id] = rolled,
                        !.trace = Append(@, Step("_process_strategy", id)),
                        !.tick[id] = [NoTick EXCEPT !.ran = TRUE,
                                                    !.counter = rolled.daily_trades,
                                                    !.rolled = (rolled # info),
                                                    !.utc = utc_today,
                                                    !.prev_utc = IF e.tick[id].ran
                                                                 THEN SomeDate(e.tick[id].utc)
                                                                 ELSE NoDate]]
    IN  IF at_limit(rolled.daily_trades, config.max_daily_trades)
        THEN [e1 EXCEPT !.tick[id].outcome = "limit"]
        ELSE e1

\* AITradingEngine._process_strategy from the answer of the feed on
_process_strategy_from_fetch(e1, id, feed) ==
    LET config == e1.configs[id]
    IN  IF insufficient(_get_candles(feed))
        THEN [e1 EXCEPT !.tick[id].outcome = "nodata", !.tick[id].fetched = TRUE,
                        !.tick[id].ncandles = _get_candles(feed),
                        !.tick[id].feed_raised = (feed.fault = "fetch")]
        ELSE IF feed.fault = "analysis"
        THEN [e1 EXCEPT !.tick[id].outcome = "raised", !.tick[id].fetched = TRUE,
                        !.tick[id].ncandles = _get_candles(feed)]
        ELSE LET result == SomeAnalysis(feed.signal, feed.confidence)
                 e2 == _log_analysis(
                           [e1 EXCEPT !.active_strategies[id].last_analysis = result,
                                      !.tick[id].outcome = "analysis",
                                      !.tick[id].fetched = TRUE,
                                      !.tick[id].ncandles = _get_candles(feed),
                                      !.tick[id].signal = feed.signal,
                                      !.tick[id].confidence = feed.confidence],
                           id, result)
             IN  IF feed.signal \in {"BUY", "SELL"}
                    /\ feed.confidence >= config.confidence_threshold
                 THEN _process_trading_signal(e2, id, feed)
                 ELSE e2

\* AITradingEngine._process_strategy
_process_strategy(e, id, feed) ==
    LET e1 == _process_strategy_to_fetch(e, id)
    IN  IF e1.tick[id].outcome = "limit" THEN e1
        ELSE _process_strategy_from_fetch(e1, id, feed)

\* mutant: every closed trade counts as a winning trade
_update_performance_mAlwaysWin(e, id, pnl) ==
    [e EXCEPT !.configs[id].total_trades = @ + 1,
              !.configs[id].total_pnl = FAdd(@, pnl),
              !.configs[id].winning_trades = @ + 1]

\* AITradingEngine._update_performance: the cumulative counters of the config
\* row; "if not config: return" when the row is no longer in the table
_update_performance(e, id, pnl) ==
    IF ~e.configs[id].present THEN e
    ELSE [e EXCEPT !.configs[id].total_trades = @ + 1,
                   !.configs[id].total_pnl = FAdd(@, pnl),
                   !.configs[id].winning_trades = IF pnl > 0 THEN @ + 1 ELSE @]

\* AITradingEngine._close_position.  position is the row object of the engine's
\* session: PositionService.close_position changes that object, and the trade
\* is built from it afterwards.
_close_position(e, id, position, current_price, reason) ==
    LET config == e.configs[id]
        pnl == pnl_of(position.side, position.entry_price, current_price, position.qty)
        closed == close_position(position, SomeQty(position.qty))
        close_side == IF closed.side = "BUY" THEN "SELL" ELSE "BUY"
        trade == save_trade(config.symbol, close_side, current_price, closed.qty, pnl)
        e1 == [e EXCEPT !.positions[config.symbol] = closed,
                        !.ntrades = @ + 1,
                        !.trades = Append(@, trade),
                        !.nlogs[id] = @ + 1,
                        !.trace = @ \o <<Step("trade", id), Step("EXIT", id)>>,
                        !.changes = Append(@, Change(reason, id, position,
                                               Opposite(position.side), current_price,
                                               position.qty, trade, closed))]
    IN  _update_performance(e1, id, pnl)

\* mutant: the stop-loss boundary is exclusive
stop_loss_hit_mStrict(pnl_pct, stop_loss_pct) == pnl_pct < -stop_loss_pct

\* "if pnl_pct <= -config.stop_loss_pct"
stop_loss_hit(pnl_pct, stop_loss_pct) == pnl_pct <= -stop_loss_pct

\* mutant: the take-profit boundary is exclusive
take_profit_hit_mStrict(pnl_pct, take_profit_pct) == pnl_pct > take_profit_pct

\* "elif pnl_pct >= config.take_profit_pct"
take_profit_hit(pnl_pct, take_profit_pct) == pnl_pct >= take_profit_pct

\* one iteration of the loop of AITradingEngine.check_exit_conditions
check_exit_condition(e, id) ==
    LET config == e.configs[id]
        position == get_position(e.positions, config.symbol)
        current_price == position.latest_price
        entry_price == position.entry_price
        pnl_pct == IF position.side = "BUY"
                   THEN FScale(FRatio(FSub(current_price, entry_price), entry_price), Num(100))
                   ELSE FScale(FRatio(FSub(entry_price, current_price), entry_price), Num(100))
        e1 == [e EXCEPT !.tick[id].seen = position]
        e2 == [e1 EXCEPT !.tick[id].pnl_pct = pnl_pct]
    IN  IF e.raised \/ ~e.active_strategies[id].loaded THEN e
        ELSE IF e.exit_fault THEN [e EXCEPT !.raised = TRUE, !.tick[id].exit = "error"]
        ELSE IF ~position.present \/ position.qty = 0 THEN [e1 EXCEPT !.tick[id].exit = "flat"]
        ELSE IF entry_price = 0 THEN [e1 EXCEPT !.raised = TRUE, !.tick[id].exit = "error"]
        ELSE IF stop_loss_hit(pnl_pct, config.stop_loss_pct)
        THEN _close_position([e2 EXCEPT !.tick[id].exit = "STOP_LOSS"],
                             id, position, current_price, "STOP_LOSS")
        ELSE IF take_profit_hit(pnl_pct, config.take_profit_pct)
        THEN _close_position([e2 EXCEPT !.tick[id].exit = "TAKE_PROFIT"],
                             id, position, current_price, "TAKE_PROFIT")
        ELSE [e2 EXCEPT !.tick[id].exit = "hold"]

\* mutant: an exception of one strategy ends the loop over the strategies
guarded_mNoTry(e, r, id) == IF r.tick[id].outcome = "raised" THEN [r EXCEPT !.raised = TRUE] ELSE r

\* "try: await self._process_strategy(strategy_info) except Exception": r is
\* what the call made of e
guarded(e, r, id) ==
    IF r.tick[id].outcome = "raised" THEN [r EXCEPT !.trace = Append(@, Step("except", id))]
    ELSE r

\* the strategies of engine.active_strategies are visited in the order they were loaded
RECURSIVE _process_strategies(_, _, _)
_process_strategies(e, id, inputs) ==
    IF id \notin ConfigIds \/ e.raised THEN e
    ELSE _process_strategies(IF e.active_strategies[id].loaded
                             THEN guarded(e, _process_strategy(e, id, inputs[id]), id)
                             ELSE e,
                             id + 1, inputs)

RECURSIVE check_exit_condition_loop(_, _)
check_exit_condition_loop(e, id) ==
    IF id \notin ConfigIds THEN e
    ELSE check_exit_condition_loop(check_exit_condition(e, id), id + 1)

\* AITradingEngine.check_exit_conditions
check_exit_conditions(e) ==
    check_exit_condition_loop([e EXCEPT !.trace = Append(@, Step("check_exit_conditions", 0))], 1)

\* mutant: nothing catches an exception of the iteration and the task ends
after_iteration_mNoCatch(raised) == IF raised THEN "ended" ELSE "sleep1"

\* the end of an iteration of the loop of start_engine: "await asyncio.sleep(1)",
\* or "except Exception" and "await asyncio.sleep(5)"
after_iteration(raised) == IF raised THEN "sleep5" ELSE "sleep1"

\* mutant: the exit check comes first
iteration_mExitFirst(e, inputs) ==
    LET e1 == check_exit_conditions(e)
    IN  IF e1.raised THEN e1 ELSE _process_strategies(e1, 1, inputs)

\* the body of "while self.running": e is the state the iteration starts in
iteration(e, inputs) ==
    LET e1 == _process_strategies(e, 1, inputs)
    IN  IF e1.raised THEN e1 ELSE check_exit_conditions(e1)

\* AITradingEngine._load_active_strategies: every active config gets a fresh entry
\* _load_active_strategies puts the row into active_strategies: the row is
\* active and create_strategy does not raise ValueError for its risk level
loads(config) ==
    /\ config.present
    /\ config.is_active
    /\ upper(config.risk_level) \in RiskLevels

_load_active_strategies ==
    [id \in ConfigIds |-> IF loads(configs[id]) THEN Loaded ELSE active_strategies[id]]

\* the tasks asyncio.create_task can make for start_engine
TaskIds == 1..MaxStarts

\* mutant: a start never finds the engine running
already_running_mNever(task) == FALSE

\* "if self.engine_task and not self.engine_task.done()"
already_running(task) == task # 0 /\ engine_tasks[task] = "running"

\* task.cancel(): CancelledError ends the task at the await it is suspended in
cancel(status) == IF status = "running" THEN "cancelled" ELSE status

\* POST /api/ai/start: AITradingService.start_ai_trading and the start of start_engine
start_ai_trading ==
    /\ starts < MaxStarts
    /\ ~already_running(shared_engine_task)
    /\ engine_tasks' = [engine_tasks EXCEPT ![starts + 1] = "running"]
    /\ shared_engine_task' = starts + 1
    /\ reply' = "ok"
    /\ running' = TRUE
    /\ active_strategies' = _load_active_strategies
    /\ loaded_entries' = [id \in ConfigIds |->
                             IF loads(configs[id]) THEN [d \in Dates |-> 0]
                             ELSE loaded_entries[id]]
    /\ utc_entries' = [id \in ConfigIds |->
                          IF loads(configs[id]) THEN [d \in Dates |-> 0]
                          ELSE utc_entries[id]]
    /\ starts' = starts + 1
    /\ tick' = [id \in ConfigIds |-> IF loads(configs[id]) THEN NoTick ELSE tick[id]]
    /\ pause' = "none"
    /\ resumed' = "none"
    /\ awaiting' = 0
    /\ UNCHANGED <<ledger_vars, configs, mode, today, tz, utc_today, nlogs, entries, changes,
                   ticks, trace, conc_vars, signal_vars>>

\* POST /api/ai/stop: AITradingService.stop_ai_trading
stop_ai_trading ==
    /\ shared_engine_task # 0
    /\ running' = FALSE
    /\ engine_tasks' = [engine_tasks EXCEPT ![shared_engine_task] = cancel(@)]
    /\ shared_engine_task' = 0
    /\ reply' = "ok"
    /\ awaiting' = 0
    /\ UNCHANGED <<ledger_vars, configs, mode, active_strategies, today, tz, utc_today,
                   nlogs, entries, loaded_entries, utc_entries, tick, changes, starts, ticks,
                   trace, pause, resumed, conc_vars, signal_vars>>

\* POST /api/ai/start while the shared task is not done: "AI trading is already
\* running" is answered and no task is created
start_refused ==
    /\ already_running(shared_engine_task)
    /\ reply' = "error"
    /\ UNCHANGED <<ledger_vars, runner_vars, conc_vars, signal_vars, engine_tasks,
                   shared_engine_task>>

\* POST /api/ai/stop with no shared task: nothing is stopped, "AI trading
\* stopped" is answered
stop_idle ==
    /\ shared_engine_task = 0
    /\ reply' = "ok"
    /\ UNCHANGED <<ledger_vars, runner_vars, conc_vars, signal_vars, engine_tasks,
                   shared_engine_task>>

\* the id the table gives the next row: the lowest one not in use
next_id == CHOOSE id \in ConfigIds : ~configs[id].present /\ \A j \in ConfigIds : j < id => configs[j].present

\* the timeframe after the defaults of the request's risk level
defaulted(risk_level, timeframe) ==
    IF upper(risk_level) \in RiskLevels /\ timeframe = "none" THEN "default" ELSE timeframe

\* POST /api/ai/strategies: AITradingService.create_strategy.  The column
\* timeframe is NOT NULL: the commit of a row without one raises, and the
\* handler answers 500.
api_create_strategy(risk_level, timeframe) ==
    /\ \E id \in ConfigIds : ~configs[id].present
    /\ IF defaulted(risk_level, timeframe) = "none"
       THEN /\ configs' = configs
            /\ last' = [NoHandler EXCEPT !.op = "create_strategy", !.branch = "error"]
       ELSE /\ configs' = [configs EXCEPT ![next_id] =
                              [AITradingConfig(FALSE, 1) EXCEPT !.risk_level = upper(risk_level)]]
            /\ last' = [NoHandler EXCEPT !.op = "create_strategy", !.branch = "ok"]
    /\ UNCHANGED <<positions, ntrades, trades, steps, mode, running, active_strategies, today, tz,
                   utc_today, nlogs, entries, loaded_entries, utc_entries, tick, changes,
                   starts, ticks, trace, pause, resumed, awaiting, conc_vars, signal_vars, service_vars>>

\* POST /api/ai/strategies/{config_id}/toggle: AITradingService.toggle_strategy
toggle_strategy(config_id) ==
    /\ IF configs[config_id].present
       THEN /\ configs' = [configs EXCEPT ![config_id].is_active = ~@]
            /\ last' = [NoHandler EXCEPT !.op = "toggle_strategy", !.branch = "ok"]
       ELSE /\ configs' = configs
            /\ last' = [NoHandler EXCEPT !.op = "toggle_strategy", !.branch = "error"]
    /\ UNCHANGED <<positions, ntrades, trades, steps, mode, running, active_strategies, today, tz,
                   utc_today, nlogs, entries, loaded_entries, utc_entries, tick, changes,
                   starts, ticks, trace, pause, resumed, awaiting, conc_vars, signal_vars, service_vars>>

\* mutant: the reset leaves total_pnl as it was
reset_performance_mKeepsPnl(config) ==
    [config EXCEPT !.total_trades = 0, !.winning_trades = 0]

\* "config.total_trades = 0 ... config.winning_trades = 0 ... config.total_pnl = 0.0"
reset_performance(config) ==
    [config EXCEPT !.total_trades = 0, !.winning_trades = 0, !.total_pnl = 0]

\* POST /api/ai/strategies/{config_id}/reset: AITradingService.reset_strategy_performance.
\* The counters of the row are set to 0 and the strategy's rows of
\* ai_trading_logs are deleted; the trades table is not touched.
reset_strategy_performance(config_id) ==
    /\ steps < MaxSteps
    /\ steps' = steps + 1
    /\ IF configs[config_id].present
       THEN /\ configs' = [configs EXCEPT ![config_id] = reset_performance(@)]
            /\ nlogs' = [nlogs EXCEPT ![config_id] = 0]
            /\ last' = [NoHandler EXCEPT !.op = "reset_strategy_performance", !.branch = "ok"]
       ELSE /\ UNCHANGED <<configs, nlogs>>
            /\ last' = [NoHandler EXCEPT !.op = "reset_strategy_performance",
                                         !.branch = "error"]
    /\ UNCHANGED <<positions, ntrades, trades, mode, running, active_strategies, today, tz,
                   utc_today, entries, loaded_entries, utc_entries, tick, changes,
                   starts, ticks, trace, pause, resumed, awaiting, conc_vars, signal_vars, service_vars>>

\* DELETE /api/ai/strategies/{config_id}: AITradingService.delete_strategy.
\* The strategy's rows of ai_trading_logs and its config row are deleted; the
\* trades table is not touched, and neither is engine.active_strategies.  The
\* deleted row keeps in the model the values the engine's object of it holds.
delete_strategy(config_id) ==
    /\ steps < MaxSteps
    /\ steps' = steps + 1
    /\ IF configs[config_id].present
       THEN /\ configs' = [configs EXCEPT ![config_id].present = FALSE]
            /\ nlogs' = [nlogs EXCEPT ![config_id] = 0]
            /\ last' = [NoHandler EXCEPT !.op = "delete_strategy", !.branch = "ok"]
       ELSE /\ UNCHANGED <<configs, nlogs>>
            /\ last' = [NoHandler EXCEPT !.op = "delete_strategy", !.branch = "error"]
    /\ UNCHANGED <<positions, ntrades, trades, mode, running, active_strategies, today, tz,
                   utc_today, entries, loaded_entries, utc_entries, tick, changes,
                   starts, ticks, trace, pause, resumed, awaiting, conc_vars, signal_vars, service_vars>>

\* the inputs a strategy can get on the next tick (none when it is not loaded)
InputsOfTick(id) ==
    IF active_strategies[id].loaded THEN TickInputs(configs[id]) ELSE {NoInput}

InputsOfLoop(id) ==
    IF active_strategies[id].loaded THEN FaultyInputs(configs[id]) ELSE {NoInput}

\* one iteration of the loop of start_engine: _process_strategies, then
\* check_exit_conditions
engine_tick(inputs, exit_fault) ==
    /\ ticks < MaxTicks
    /\ running
    /\ pause # "ended"
    /\ awaiting = 0
    /\ \E e2 \in {iteration([positions |-> positions, ntrades |-> ntrades, trades |-> trades,
                            configs |-> configs,
                            active_strategies |-> active_strategies, nlogs |-> nlogs,
                            entries |-> entries, loaded_entries |-> loaded_entries,
                            utc_entries |-> utc_entries,
                            tick |-> tick, changes |-> <<>>, trace |-> <<>>,
                            exit_fault |-> exit_fault, raised |-> FALSE],
                           inputs)} :
           /\ positions' = e2.positions
           /\ ntrades' = e2.ntrades
           /\ trades' = e2.trades
           /\ configs' = e2.configs
           /\ active_strategies' = e2.active_strategies
           /\ nlogs' = e2.nlogs
           /\ entries' = e2.entries
           /\ loaded_entries' = e2.loaded_entries
           /\ utc_entries' = e2.utc_entries
           /\ tick' = e2.tick
           /\ changes' = e2.changes
           /\ trace' = IF e2.raised THEN Append(e2.trace, Step("except", 0)) ELSE e2.trace
           /\ pause' = after_iteration(e2.raised)
    /\ resumed' = pause
    /\ ticks' = ticks + 1
    /\ UNCHANGED <<last, steps, mode, running, today, tz, utc_today, starts, awaiting,
                   conc_vars, signal_vars, service_vars>>

\* the iteration goes on from strategy id: a strategy at its limit is passed,
\* and the task is suspended at the first "await self._get_candles"; after the
\* last strategy comes the exit check
RECURSIVE run_on(_, _)
run_on(e, id) ==
    IF e.raised THEN e
    ELSE IF id \notin ConfigIds THEN check_exit_conditions(e)
    ELSE IF ~e.active_strategies[id].loaded THEN run_on(e, id + 1)
    ELSE LET e1 == _process_strategy_to_fetch(e, id)
         IN  IF e1.tick[id].outcome = "limit" THEN run_on(e1, id + 1)
             ELSE [e1 EXCEPT !.awaiting = id]

\* the state the engine's task has come to: it is suspended in a fetch, or the
\* iteration is over and it sleeps
suspend(e2) ==
    /\ positions' = e2.positions
    /\ ntrades' = e2.ntrades
    /\ trades' = e2.trades
    /\ configs' = e2.configs
    /\ active_strategies' = e2.active_strategies
    /\ nlogs' = e2.nlogs
    /\ entries' = e2.entries
    /\ loaded_entries' = e2.loaded_entries
    /\ utc_entries' = e2.utc_entries
    /\ tick' = e2.tick
    /\ changes' = e2.changes
    /\ trace' = IF e2.raised THEN Append(e2.trace, Step("except", 0)) ELSE e2.trace
    /\ awaiting' = e2.awaiting
    /\ IF e2.awaiting = 0
       THEN /\ pause' = after_iteration(e2.raised)
            /\ resumed' = pause
            /\ ticks' = ticks + 1
       ELSE UNCHANGED <<pause, resumed, ticks>>
    /\ UNCHANGED <<last, steps, mode, running, today, tz, utc_today, starts, conc_vars, signal_vars, service_vars>>

\* the engine's and the database's state inside an iteration
Engine(exit_fault) ==
    [positions |-> positions, ntrades |-> ntrades, trades |-> trades, configs |-> configs,
     active_strategies |-> active_strategies, nlogs |-> nlogs,
     entries |-> entries, loaded_entries |-> loaded_entries, utc_entries |-> utc_entries,
     tick |-> tick, changes |-> changes, trace |-> trace,
     exit_fault |-> exit_fault, raised |-> FALSE, awaiting |-> 0]

\* the task wakes from its sleep and begins an iteration of the loop; it runs
\* until it awaits the feed, or to the end of the iteration
iteration_begins(exit_fault) ==
    /\ ticks < MaxTicks
    /\ running
    /\ pause # "ended"
    /\ awaiting = 0
    /\ suspend(run_on([Engine(exit_fault) EXCEPT !.changes = <<>>, !.trace = <<>>], 1))

\* the feed answers the task: the strategy's processing goes on from its
\* candles, and the iteration after it
candles_fetched(feed, exit_fault) ==
    /\ running
    /\ awaiting # 0
    /\ suspend(run_on(guarded(Engine(exit_fault),
                              _process_strategy_from_fetch(Engine(exit_fault), awaiting, feed),
                              awaiting),
                      awaiting + 1))

\* midnight on the host's clock: date.today() moves on.  On a host east of
\* Greenwich the UTC date follows some hours later.
next_day ==
    /\ today + 1 \in Dates
    /\ today = utc_today
    /\ today' = today + 1
    /\ utc_today' = IF tz = "UTC" THEN utc_today + 1 ELSE utc_today
    /\ UNCHANGED <<ledger_vars, configs, mode, running, active_strategies, tz, nlogs, entries,
                   loaded_entries, utc_entries, tick, changes, starts, ticks, trace, pause,
                   resumed, awaiting,
                   conc_vars, signal_vars, service_vars>>

\* midnight UTC on a host whose date has already moved on
utc_midnight ==
    /\ utc_today < today
    /\ utc_today' = utc_today + 1
    /\ UNCHANGED <<ledger_vars, configs, mode, running, active_strategies, today, tz, nlogs,
                   entries, loaded_entries, utc_entries, tick, changes, starts, ticks,
                   trace, pause, resumed, awaiting, conc_vars, signal_vars, service_vars>>

\* ------------------------------- two requests served by two worker threads
\* POST /api/trade and POST /api/position/close are plain "def" endpoints:
\* FastAPI runs each request on a worker thread with a database session of its
\* own, and nothing in the source locks a symbol.  A request first reads the row
\* into its session (get_position) and later commits what it computed from it.
Callers == {1, 2}
NoRequest == [op |-> "none", symbol |-> "", side |-> "", price |-> 0, req |-> NoQty]
ConcPrices == {Num(110)}
ConcQtys == {Num(5), Num(10)}
Requests ==
    {[op |-> "trade", symbol |-> symbol, side |-> side, price |-> price, req |-> SomeQty(qty)] :
        symbol \in Symbols, side \in Sides, price \in ConcPrices, qty \in ConcQtys}
    \cup {[op |-> "close", symbol |-> symbol, side |-> "", price |-> price, req |-> req] :
        symbol \in Symbols, price \in ConcPrices, req \in {NoQty, SomeQty(Num(5))}}

\* the row after BUY 10 @ 100 on a symbol without a row
LongPosition == create_or_update_position(NoPosition, "BUY", Num(10), Num(100), Num(100))

\* the UPDATE a session flushes: the columns whose value the request changed on
\* the object it loaded
flush(row, loaded, changed) ==
    [f \in DOMAIN row |-> IF changed[f] # loaded[f] THEN changed[f] ELSE row[f]]

\* what a request computes from the row it read: the row it wants and the PnL
\* it saves on its trade
computed(rq, position) ==
    IF rq.op = "trade"
    THEN update_position_on_trade(position, rq.side, rq.price, rq.req.qty)
    ELSE LET prev_qty == position.qty
             closed_qty == IF ~rq.req.given \/ rq.req.qty >= prev_qty THEN prev_qty
                           ELSE rq.req.qty
         IN  [position |-> close_position(position, SomeQty(closed_qty)),
              pnl |-> pnl_of(position.side, position.entry_price, rq.price, closed_qty),
              branch |-> "close"]

\* the close endpoint answers "No active position to close" and writes nothing
refused(rq, position) ==
    rq.op = "close" /\ (~position.present \/ position.qty <= 0)

\* a request arrives and its handler reads the position
read_position(c, rq) ==
    LET position == get_position(positions, rq.symbol)
    IN  /\ pc[c] = "idle"
        /\ request' = [request EXCEPT ![c] = rq]
        /\ snapshot' = [snapshot EXCEPT ![c] = position]
        /\ pc' = [pc EXCEPT ![c] = IF refused(rq, position) THEN "done" ELSE "read"]
        /\ UNCHANGED <<ledger_vars, runner_vars, saved_pnl, positions0, signal_vars, service_vars>>

\* the handler commits the row and saves its trade.  A handler that read no row
\* goes through create_or_update_position, which queries again.
write_position(c) ==
    LET rq == request[c]
        row == positions[rq.symbol]
        r == computed(rq, snapshot[c])
        written == IF snapshot[c].present THEN flush(row, snapshot[c], r.position)
                   ELSE create_or_update_position(get_position(positions, rq.symbol),
                                                  rq.side, rq.req.qty, rq.price, rq.price)
        prev_qty == snapshot[c].qty
        closed_qty == IF ~rq.req.given \/ rq.req.qty >= prev_qty THEN prev_qty ELSE rq.req.qty
        trade == IF rq.op = "trade"
                 THEN save_trade(rq.symbol, rq.side, rq.price, rq.req.qty, r.pnl)
                 ELSE save_trade(rq.symbol, Opposite(snapshot[c].side), rq.price,
                                 closed_qty, r.pnl)
    IN  /\ pc[c] = "read"
        /\ positions' = [positions EXCEPT ![rq.symbol] = written]
        /\ ntrades' = ntrades + 1
        /\ trades' = Append(trades, trade)
        /\ saved_pnl' = [saved_pnl EXCEPT ![c] = r.pnl]
        /\ pc' = [pc EXCEPT ![c] = "done"]
        /\ UNCHANGED <<last, steps, runner_vars, request, snapshot, positions0, signal_vars, service_vars>>

\* -------------------------------------------------------- signal engine
\* "if len(candles) < 50"
MinCandles == 50

SubRules == 1..8
Outcomes == {"BUY", "SELL", "none"}

\* the float literal 0.k of the source
Tenths(k) == Fl(k * Fine, 10)

\* the confidence score each sub-rule appends when it fires, in the order the
\* variant evaluates its sub-rules
HighRiskScores ==
    <<Tenths(8), Tenths(7), Tenths(6), Tenths(5), Tenths(6), Tenths(5), Tenths(7), Tenths(3)>>
MediumRiskScores ==
    <<Tenths(8), Tenths(7), Tenths(6), Tenths(7), Tenths(6), Tenths(8), Tenths(7), Tenths(6)>>
LowRiskScores ==
    <<Tenths(9), Tenths(7), Tenths(8), Tenths(6), Tenths(6), Tenths(8), Tenths(7), Tenths(5)>>

\* the lists "signals" and "confidence_scores" after the sub-rules 1..i
RECURSIVE signals_of(_, _)
signals_of(fired, i) ==
    IF i = 0 THEN <<>>
    ELSE IF fired[i] = "none" THEN signals_of(fired, i - 1)
    ELSE Append(signals_of(fired, i - 1), fired[i])

RECURSIVE confidence_scores_of(_, _, _)
confidence_scores_of(fired, scores, i) ==
    IF i = 0 THEN <<>>
    ELSE IF fired[i] = "none" THEN confidence_scores_of(fired, scores, i - 1)
    ELSE Append(confidence_scores_of(fired, scores, i - 1), scores[i])

\* list.count
count(list, x) == Cardinality({i \in DOMAIN list : list[i] = x})

\* sum(list) of floats: additions from the left, each rounded
RECURSIVE sum(_)
sum(list) ==
    IF list = <<>> THEN 0
    ELSE Fl(sum(SubSeq(list, 1, Len(list) - 1)) + list[Len(list)], 1)

\* mutant: the score of the first fired sub-rule instead of the mean
avg_of_mFirst(confidence_scores) ==
    IF confidence_scores = <<>> THEN 0 ELSE confidence_scores[1]

\* "sum(confidence_scores) / len(confidence_scores) if confidence_scores else 0"
avg_of(confidence_scores) ==
    IF confidence_scores = <<>> THEN 0
    ELSE Fl(sum(confidence_scores), Len(confidence_scores))

\* the result dict of analyze_market
Analysis(confidence, signal, reason, evaluated) ==
    [confidence |-> confidence, signal |-> signal, reason |-> reason,
     evaluated |-> evaluated]

NoAnalysis == Analysis(0, "none", "", FALSE)

\* mutant: a tie of the counts is decided for BUY
HighRisk_analyze_signals_mTie(fired, confidence_threshold) ==
    LET signals == signals_of(fired, 8)
        buy_signals == count(signals, "BUY")
        sell_signals == count(signals, "SELL")
        avg_confidence == avg_of(confidence_scores_of(fired, HighRiskScores, 8))
    IN  IF buy_signals >= sell_signals /\ avg_confidence >= confidence_threshold
        THEN Analysis(avg_confidence, "BUY", "signals", TRUE)
        ELSE IF sell_signals > buy_signals /\ avg_confidence >= confidence_threshold
        THEN Analysis(avg_confidence, "SELL", "signals", TRUE)
        ELSE Analysis(avg_confidence, "HOLD", "insufficient signals", TRUE)

\* HighRiskStrategy._analyze_signals: the aggregation of the fired sub-rules
HighRisk_analyze_signals(fired, confidence_threshold) ==
    LET signals == signals_of(fired, 8)
        buy_signals == count(signals, "BUY")
        sell_signals == count(signals, "SELL")
        avg_confidence == avg_of(confidence_scores_of(fired, HighRiskScores, 8))
    IN  IF buy_signals > sell_signals /\ avg_confidence >= confidence_threshold
        THEN Analysis(avg_confidence, "BUY", "signals", TRUE)
        ELSE IF sell_signals > buy_signals /\ avg_confidence >= confidence_threshold
        THEN Analysis(avg_confidence, "SELL", "signals", TRUE)
        ELSE Analysis(avg_confidence, "HOLD", "insufficient signals", TRUE)

\* MediumRiskStrategy._analyze_signals
MediumRisk_analyze_signals(fired, confidence_threshold) ==
    LET signals == signals_of(fired, 8)
        buy_signals == count(signals, "BUY")
        sell_signals == count(signals, "SELL")
        avg_confidence == avg_of(confidence_scores_of(fired, MediumRiskScores, 8))
    IN  IF buy_signals > sell_signals /\ avg_confidence >= confidence_threshold
        THEN Analysis(avg_confidence, "BUY", "signals", TRUE)
        ELSE IF sell_signals > buy_signals /\ avg_confidence >= confidence_threshold
        THEN Analysis(avg_confidence, "SELL", "signals", TRUE)
        ELSE Analysis(avg_confidence, "HOLD", "insufficient signals", TRUE)

\* LowRiskStrategy._analyze_signals
LowRisk_analyze_signals(fired, confidence_threshold) ==
    LET signals == signals_of(fired, 8)
        buy_signals == count(signals, "BUY")
        sell_signals == count(signals, "SELL")
        avg_confidence == avg_of(confidence_scores_of(fired, LowRiskScores, 8))
    IN  IF buy_signals > sell_signals /\ avg_confidence >= confidence_threshold
        THEN Analysis(avg_confidence, "BUY", "signals", TRUE)
        ELSE IF sell_signals > buy_signals /\ avg_confidence >= confidence_threshold
        THEN Analysis(avg_confidence, "SELL", "signals", TRUE)
        ELSE Analysis(avg_confidence, "HOLD", "insufficient signals", TRUE)

\* mutant: one candle fewer is still enough
too_few_mOffByOne(ncandles) == ncandles < MinCandles - 1

\* "if len(candles) < 50"
too_few(ncandles) == ncandles < MinCandles

\* AITradingStrategy.analyze_market
analyze_market(self, candles) ==
    IF too_few(candles.ncandles)
    THEN Analysis(0, "HOLD", "Insufficient data", FALSE)
    ELSE IF self.risk_level = "HIGH"
    THEN HighRisk_analyze_signals(candles.fired, self.config.confidence_threshold)
    ELSE IF self.risk_level = "MEDIUM"
    THEN MediumRisk_analyze_signals(candles.fired, self.config.confidence_threshold)
    ELSE LowRisk_analyze_signals(candles.fired, self.config.confidence_threshold)

\* create_strategy(risk_level, config)
create_strategy(risk_level, confidence_threshold) ==
    [risk_level |-> risk_level, config |-> [confidence_threshold |-> confidence_threshold]]

\* the thresholds an operator configures: 0, 0.6 and 0.7
Thresholds == {0, Tenths(6), Tenths(7)}

\* the candles of a market: enough of them with any outcome of the eight
\* sub-rules, or too few of them
Markets ==
    {[ncandles |-> n, fired |-> fired] :
        n \in {MinCandles, 2 * MinCandles}, fired \in [SubRules -> Outcomes]}
    \cup {[ncandles |-> n, fired |-> [i \in SubRules |-> side]] :
        n \in {0, MinCandles - 1}, side \in Outcomes}

\* a strategy analyzes the market once
analyze ==
    /\ analysis = NoAnalysis
    /\ analysis' = analyze_market(strategy, market)
    /\ UNCHANGED <<ledger_vars, runner_vars, conc_vars, service_vars, strategy, market, chart, indicators, quotients>>

\* --------------------------------------------------- technical indicators
\* the longest chart and the longest period the indicators are applied with
MaxLen == 4
MaxPeriod == 3

\* "[x] * n"
Repeat(x, n) == [k \in 1..n |-> x]

\* max(list) and min(list) of a non-empty list
max(list) == CHOOSE x \in {list[k] : k \in DOMAIN list} : \A k \in DOMAIN list : list[k] <= x
min(list) == CHOOSE x \in {list[k] : k \in DOMAIN list} : \A k \in DOMAIN list : x <= list[k]

\* what an expression evaluates to, or the ZeroDivisionError a division by 0
\* raises
Returned(value) == [raised |-> FALSE, value |-> value]
ZeroDivisionError == [raised |-> TRUE, value |-> 0]

\* the list a loop built, unless one of its iterations raised
Collected(result) ==
    IF \E k \in DOMAIN result : result[k].raised
    THEN [raised |-> TRUE, values |-> <<>>]
    ELSE [raised |-> FALSE, values |-> [k \in DOMAIN result |-> result[k].value]]

\* The source indexes a list from 0, the model from 1: the source's element i
\* is the model's element k = i + 1, and the slice [i-period+1 : i+1] is
\* SubSeq(list, k - period + 1, k).

\* mutant: the average starts one candle late
sma_mLateStart(data, period) ==
    IF Len(data) < period THEN Repeat(0, Len(data))
    ELSE [k \in 1..Len(data) |->
            IF k <= period THEN 0
            ELSE FDiv(sum(SubSeq(data, k - period + 1, k)), Num(period))]

\* TechnicalIndicators.sma
sma(data, period) ==
    IF Len(data) < period THEN Repeat(0, Len(data))
    ELSE [k \in 1..Len(data) |->
            IF k < period THEN 0
            ELSE FDiv(sum(SubSeq(data, k - period + 1, k)), Num(period))]

\* "multiplier = 2 / (period + 1)", in steps of 2^-RatioBits
multiplier(period) == FRatio(Num(2), Num(period + 1))

\* result[i] of ema for i >= period - 1 (k >= period)
RECURSIVE ema_result(_, _, _)
ema_result(data, period, k) ==
    IF k = period THEN FDiv(sum(SubSeq(data, 1, period)), Num(period))
    ELSE FAdd(FScale(multiplier(period), data[k]),
              FScale(Fl(Fine - multiplier(period), 1), ema_result(data, period, k - 1)))

\* TechnicalIndicators.ema
ema(data, period) ==
    IF Len(data) < period THEN Repeat(0, Len(data))
    ELSE [k \in 1..Len(data) |-> IF k < period THEN 0 ELSE ema_result(data, period, k)]

\* the body of the loop of rsi for the candle i = k - 1
rsi_value(avg_gains, avg_losses, k) ==
    IF k <= Len(avg_losses) /\ avg_losses[k] = 0 THEN Returned(Num(100))
    ELSE IF k <= Len(avg_losses) /\ k <= Len(avg_gains)
    THEN IF avg_losses[k] = 0 THEN ZeroDivisionError
         ELSE LET rs == FDiv(avg_gains[k], avg_losses[k])
              IN  Returned(FSub(Num(100), FDiv(Num(100), FAdd(Num(1), rs))))
    ELSE Returned(Num(50))

\* "deltas", "gains" and "losses" of rsi
deltas_of(data) == [k \in 1..(Len(data) - 1) |-> FSub(data[k + 1], data[k])]
gains_of(data) == [k \in 1..(Len(data) - 1) |-> IF deltas_of(data)[k] > 0 THEN deltas_of(data)[k] ELSE 0]
losses_of(data) == [k \in 1..(Len(data) - 1) |-> IF deltas_of(data)[k] < 0 THEN -deltas_of(data)[k] ELSE 0]

\* TechnicalIndicators.rsi
rsi(data, period) ==
    IF Len(data) < period + 1
    THEN [raised |-> FALSE, values |-> Repeat(Num(50), Len(data))]
    ELSE LET avg_gains == sma(gains_of(data), period)
             avg_losses == sma(losses_of(data), period)
         IN  Collected([k \in 1..Len(data) |->
                          IF k <= period THEN Returned(Num(50))
                          ELSE rsi_value(avg_gains, avg_losses, k)])

\* TechnicalIndicators.macd
macd(data, fast, slow, signal) ==
    LET ema_fast == ema(data, fast)
        ema_slow == ema(data, slow)
        macd_line == [k \in 1..Len(data) |-> FSub(ema_fast[k], ema_slow[k])]
        signal_line == ema(macd_line, signal)
    IN  [macd_line |-> macd_line,
         signal_line |-> signal_line,
         histogram |-> [k \in 1..Len(data) |-> FSub(macd_line[k], signal_line[k])]]

\* the float nearest to the square root of the float x (x >= 0)
FSqrt(x) ==
    LET a == x * Unit
        r == CHOOSE r \in 0..a : r * r <= a /\ a < (r + 1) * (r + 1)
    IN  Fl(IF a - r * r > r THEN r + 1 ELSE r, 1)

\* np.std of a non-empty list: the root of the mean squared deviation
np_std(list) ==
    LET mean == FDiv(sum(list), Num(Len(list)))
        squares == [k \in 1..Len(list) |->
                      FMul(FSub(list[k], mean), FSub(list[k], mean))]
    IN  FSqrt(FDiv(sum(squares), Num(Len(list))))

\* TechnicalIndicators.bollinger_bands
bollinger_bands(data, period, std_dev) ==
    LET middle == sma(data, period)
    IN  [upper_band |-> [k \in 1..Len(data) |->
                           IF k < period THEN data[k]
                           ELSE FAdd(middle[k],
                                     FMul(np_std(SubSeq(data, k - period + 1, k)), std_dev))],
         sma |-> middle,
         lower_band |-> [k \in 1..Len(data) |->
                           IF k < period THEN data[k]
                           ELSE FSub(middle[k],
                                     FMul(np_std(SubSeq(data, k - period + 1, k)), std_dev))]]

\* mutant: %K without the test of the range
stochastic_k_mNoGuard(high, low, close, k_period, k) ==
    IF k < k_period THEN Returned(Num(50))
    ELSE LET highest_high == max(SubSeq(high, k - k_period + 1, k))
             lowest_low == min(SubSeq(low, k - k_period + 1, k))
         IN  IF FSub(highest_high, lowest_low) = 0 THEN ZeroDivisionError
             ELSE Returned(FScale(FRatio(FSub(close[k], lowest_low),
                                         FSub(highest_high, lowest_low)), Num(100)))

\* the body of the loop of stochastic for the candle i = k - 1
stochastic_k(high, low, close, k_period, k) ==
    IF k < k_period THEN Returned(Num(50))
    ELSE LET highest_high == max(SubSeq(high, k - k_period + 1, k))
             lowest_low == min(SubSeq(low, k - k_period + 1, k))
         IN  IF highest_high # lowest_low
             THEN IF FSub(highest_high, lowest_low) = 0 THEN ZeroDivisionError
                  ELSE Returned(FScale(FRatio(FSub(close[k], lowest_low),
                                              FSub(highest_high, lowest_low)), Num(100)))
             ELSE Returned(Num(50))

\* TechnicalIndicators.stochastic
stochastic(high, low, close, k_period, d_period) ==
    LET k_percent == Collected([k \in 1..Len(close) |->
                                  stochastic_k(high, low, close, k_period, k)])
    IN  IF k_percent.raised
        THEN [raised |-> TRUE, k_percent |-> <<>>, d_percent |-> <<>>]
        ELSE [raised |-> FALSE, k_percent |-> k_percent.values,
              d_percent |-> sma(k_percent.values, d_period)]

\* "max(tr1, tr2, tr3)" for the candle i = k - 1 >= 1
true_range(high, low, close, k) ==
    max(<<FSub(high[k], low[k]),
          Abs(FSub(high[k], close[k - 1])),
          Abs(FSub(low[k], close[k - 1]))>>)

\* mutant: the list of averages is returned without the leading 0
atr_mNoPad(high, low, close, period) ==
    IF Len(high) < 2 THEN Repeat(0, Len(high))
    ELSE sma([k \in 1..(Len(high) - 1) |-> true_range(high, low, close, k + 1)], period)

\* TechnicalIndicators.atr
atr(high, low, close, period) ==
    IF Len(high) < 2 THEN Repeat(0, Len(high))
    ELSE LET true_ranges == [k \in 1..(Len(high) - 1) |-> true_range(high, low, close, k + 1)]
         IN  Repeat(0, Len(high) - Len(true_ranges)) \o sma(true_ranges, period)

\* mutant: the candles before the warm-up are filled with 0
williams_value_mZeroFill(high, low, close, period, k) ==
    IF k < period THEN Returned(0)
    ELSE LET highest_high == max(SubSeq(high, k - period + 1, k))
             lowest_low == min(SubSeq(low, k - period + 1, k))
         IN  IF highest_high # lowest_low
             THEN Returned(FScale(FRatio(FSub(highest_high, close[k]),
                                         FSub(highest_high, lowest_low)), Num(-100)))
             ELSE Returned(Num(-50))

\* the body of the loop of williams_r for the candle i = k - 1
williams_value(high, low, close, period, k) ==
    IF k < period THEN Returned(Num(-50))
    ELSE LET highest_high == max(SubSeq(high, k - period + 1, k))
             lowest_low == min(SubSeq(low, k - period + 1, k))
         IN  IF highest_high # lowest_low
             THEN IF FSub(highest_high, lowest_low) = 0 THEN ZeroDivisionError
                  ELSE Returned(FScale(FRatio(FSub(highest_high, close[k]),
                                              FSub(highest_high, lowest_low)), Num(-100)))
             ELSE Returned(Num(-50))

\* TechnicalIndicators.williams_r
williams_r(high, low, close, period) ==
    Collected([k \in 1..Len(close) |-> williams_value(high, low, close, period, k)])

\* "(high[j] + low[j] + close[j]) / 3"
typical(high, low, close, k) == FDiv(FAdd(FAdd(high[k], low[k]), close[k]), Num(3))

\* the typical prices of the period candles that end at the candle i = k - 1
typical_window(high, low, close, period, k) ==
    [j \in 1..period |-> typical(high, low, close, k - period + j)]

\* "sma_tp" and "mean_deviation" of cci for the candle i = k - 1
sma_tp_of(high, low, close, period, k) ==
    FDiv(sum(typical_window(high, low, close, period, k)), Num(period))
mean_deviation_of(high, low, close, period, k) ==
    FDiv(sum([j \in 1..period |->
                Abs(FSub(typical_window(high, low, close, period, k)[j],
                         sma_tp_of(high, low, close, period, k)))]),
         Num(period))

\* the float literal 0.015, in steps of 2^-RatioBits
Lambert == Fl(15 * Fine, 1000)

\* the body of the loop of cci for the candle i = k - 1
cci_value(high, low, close, period, k) ==
    IF k < period THEN Returned(0)
    ELSE LET typical_price == typical(high, low, close, k)
             sma_tp == sma_tp_of(high, low, close, period, k)
             mean_deviation == mean_deviation_of(high, low, close, period, k)
             \* "0.015 * mean_deviation", in steps of 2^-RatioBits
             divisor == Fl(Lambert * mean_deviation, Unit)
         IN  IF mean_deviation = 0 THEN Returned(0)
             ELSE IF divisor = 0 THEN ZeroDivisionError
             ELSE Returned(Fl(FSub(typical_price, sma_tp) * Fine, divisor))

\* TechnicalIndicators.cci
cci(high, low, close, period) ==
    Collected([k \in 1..Len(close) |-> cci_value(high, low, close, period, k)])

\* "dm_plus", "dm_minus" and "tr_values" of adx; their element i - 1 is
\* computed from the candles i - 1 and i
dm_plus_of(high, low) ==
    [k \in 1..(Len(high) - 1) |->
        LET high_diff == FSub(high[k + 1], high[k])
            low_diff == FSub(low[k], low[k + 1])
        IN  IF high_diff > low_diff /\ high_diff > 0 THEN high_diff ELSE 0]
dm_minus_of(high, low) ==
    [k \in 1..(Len(high) - 1) |->
        LET high_diff == FSub(high[k + 1], high[k])
            low_diff == FSub(low[k], low[k + 1])
        IN  IF low_diff > high_diff /\ low_diff > 0 THEN low_diff ELSE 0]
tr_values_of(high, low, close) ==
    [k \in 1..(Len(high) - 1) |-> true_range(high, low, close, k + 1)]

\* "di_plus" (from dm_plus) and "di_minus" (from dm_minus) of adx at k
di_value(dm, tr_values, period, k) ==
    IF k < period THEN Returned(0)
    ELSE LET dm_sma == FDiv(sum(SubSeq(dm, k - period + 1, k)), Num(period))
             tr_sma == FDiv(sum(SubSeq(tr_values, k - period + 1, k)), Num(period))
         IN  IF tr_sma = 0 THEN Returned(0)
             ELSE Returned(FScale(FRatio(dm_sma, tr_sma), Num(100)))

\* "dx" of adx
dx_value(di_plus, di_minus) ==
    IF FAdd(di_plus, di_minus) > 0
    THEN Returned(FScale(FRatio(Abs(FSub(di_plus, di_minus)), FAdd(di_plus, di_minus)),
                         Num(100)))
    ELSE Returned(0)

\* the value adx appends for the element k >= period of di_plus and di_minus
RECURSIVE adx_value(_, _, _, _)
adx_value(di_plus, di_minus, period, k) ==
    LET dx == dx_value(di_plus[k], di_minus[k]).value
    IN  IF k = period THEN dx
        ELSE FDiv(FAdd(FMul(adx_value(di_plus, di_minus, period, k - 1), Num(period - 1)), dx),
                  Num(period))

\* TechnicalIndicators.adx: the list it returns, with its lists "di_plus" and
\* "di_minus"
adx(high, low, close, period) ==
    IF Len(high) < 2
    THEN [raised |-> FALSE, values |-> Repeat(0, Len(high)),
          di_plus |-> <<>>, di_minus |-> <<>>]
    ELSE LET tr_values == tr_values_of(high, low, close)
             di_plus == Collected([k \in 1..(Len(high) - 1) |->
                           di_value(dm_plus_of(high, low), tr_values, period, k)])
             di_minus == Collected([k \in 1..(Len(high) - 1) |->
                           di_value(dm_minus_of(high, low), tr_values, period, k)])
         IN  IF di_plus.raised \/ di_minus.raised
             THEN [raised |-> TRUE, values |-> <<>>, di_plus |-> <<>>, di_minus |-> <<>>]
             ELSE [raised |-> FALSE,
                   di_plus |-> di_plus.values,
                   di_minus |-> di_minus.values,
                   values |-> Repeat(0, Len(high) - Len(di_plus.values))
                              \o [k \in 1..Len(di_plus.values) |->
                                    IF k < period THEN 0
                                    ELSE adx_value(di_plus.values, di_minus.values, period, k)]]

\* HighRiskStrategy._analyze_signals, sub-rule 1: what "rsi[-1]" makes it
\* append to "signals"
HighRisk_rsi_signal(rsi_values) ==
    IF rsi_values[Len(rsi_values)] < Num(30) THEN "BUY"
    ELSE IF rsi_values[Len(rsi_values)] > Num(70) THEN "SELL"
    ELSE "none"

\* nothing has been computed
NoIndicators == [period |-> 0]

\* the columns of the chart
closes_of(candles) == [k \in 1..Len(candles) |-> candles[k].close]
highs_of(candles) == [k \in 1..Len(candles) |-> candles[k].high]
lows_of(candles) == [k \in 1..Len(candles) |-> candles[k].low]

\* the indicators of analyze_market, all with one period (the slow average
\* of macd one candle longer)
compute_indicators(period) ==
    /\ indicators = NoIndicators
    /\ indicators' =
         LET closes == closes_of(chart)
             highs == highs_of(chart)
             lows == lows_of(chart)
         IN  [period |-> period,
              sma |-> sma(closes, period),
              ema |-> ema(closes, period),
              rsi |-> rsi(closes, period),
              macd |-> macd(closes, period, period + 1, period),
              bollinger_bands |-> bollinger_bands(closes, period, Num(2)),
              stochastic |-> stochastic(highs, lows, closes, period, period),
              atr |-> atr(highs, lows, closes, period),
              williams_r |-> williams_r(highs, lows, closes, period),
              cci |-> cci(highs, lows, closes, period),
              adx |-> adx(highs, lows, closes, period)]
    /\ UNCHANGED <<ledger_vars, runner_vars, conc_vars, service_vars, strategy, market, analysis, chart, quotients>>

\* a quotient of _analyze_signals: whether the division was reached, whether
\* it raised, and its value when that is a finite number
Quotient(reached, raised, finite, value) ==
    [computed |-> reached, raised |-> raised, finite |-> finite, value |-> value]

NotReached == Quotient(FALSE, FALSE, FALSE, 0)
NoQuotients == [risk_level |-> "none", raised |-> FALSE, bb_position |-> NotReached,
                atr_ratio |-> NotReached, price_change |-> NotReached]

\* x / y of two Python floats: ZeroDivisionError when y is 0.0
truediv(x, y) ==
    IF y = 0 THEN Quotient(TRUE, TRUE, FALSE, 0)
    ELSE Quotient(TRUE, FALSE, TRUE, FRatio(x, y))

\* x / y of two numpy.float64 (the bands hold np.std of the window): no
\* exception, nan or inf and a RuntimeWarning when y is 0.0
float64_truediv(x, y) ==
    IF y = 0 THEN Quotient(TRUE, FALSE, FALSE, 0)
    ELSE Quotient(TRUE, FALSE, TRUE, FRatio(x, y))

\* the literal 0.01 of "if atr_ratio > 0.01"
Hundredth == Fl(Fine, 100)

\* "(current_price - bb_lower[-1]) / (bb_upper[-1] - bb_lower[-1])"
bb_position(current_price, bb_upper, bb_lower) ==
    float64_truediv(FSub(current_price, bb_lower[Len(bb_lower)]),
                    FSub(bb_upper[Len(bb_upper)], bb_lower[Len(bb_lower)]))

\* the divisions of HighRiskStrategy._analyze_signals: the ATR ratio when the
\* last ATR is positive, the change of the last close when the ratio is above
\* 0.01, and bb_position in the dict it returns
HighRisk_quotients(current_price, prev_price, bb_upper, bb_lower, atr_values) ==
    LET last_atr == atr_values[Len(atr_values)]
        atr_ratio == IF Len(atr_values) > 0 /\ last_atr > 0
                     THEN truediv(last_atr, current_price) ELSE NotReached
        price_change == IF atr_ratio.finite /\ atr_ratio.value > Hundredth
                        THEN truediv(FSub(current_price, prev_price), prev_price)
                        ELSE NotReached
        raised == atr_ratio.raised \/ price_change.raised
    IN  [risk_level |-> "HIGH", raised |-> raised,
         bb_position |-> IF raised THEN NotReached
                         ELSE bb_position(current_price, bb_upper, bb_lower),
         atr_ratio |-> atr_ratio, price_change |-> price_change]

\* the divisions of MediumRiskStrategy._analyze_signals: bb_position only
MediumRisk_quotients(current_price, bb_upper, bb_lower) ==
    [risk_level |-> "MEDIUM", raised |-> FALSE,
     bb_position |-> bb_position(current_price, bb_upper, bb_lower),
     atr_ratio |-> NotReached, price_change |-> NotReached]

\* the divisions of LowRiskStrategy._analyze_signals: bb_position, the ATR
\* ratio when the last ATR is positive, and the ATR ratio again when the
\* volume of the last candle is above 1.5 times the average
LowRisk_quotients(current_price, bb_upper, bb_lower, atr_values, volume_surge) ==
    LET last_atr == atr_values[Len(atr_values)]
        atr_ratio == IF (Len(atr_values) > 0 /\ last_atr > 0) \/ volume_surge
                     THEN truediv(last_atr, current_price) ELSE NotReached
    IN  [risk_level |-> "LOW", raised |-> atr_ratio.raised,
         bb_position |-> bb_position(current_price, bb_upper, bb_lower),
         atr_ratio |-> atr_ratio, price_change |-> NotReached]

\* analyze_market on a chart that is past the warm-up of every indicator
\* (the 50 candles of the source against its longest period of 50): the
\* indicators, then the quotients of the variant's _analyze_signals
_analyze_signals_quotients(period, volume_surge) ==
    /\ quotients = NoQuotients
    /\ Len(chart) > period
    /\ quotients' =
         LET closes == closes_of(chart)
             bands == bollinger_bands(closes, period, Num(2))
             atr_values == atr(highs_of(chart), lows_of(chart), closes, period)
             current_price == closes[Len(closes)]
             prev_price == closes[Len(closes) - 1]
         IN  IF strategy.risk_level = "HIGH"
             THEN HighRisk_quotients(current_price, prev_price, bands.upper_band,
                                     bands.lower_band, atr_values)
             ELSE IF strategy.risk_level = "MEDIUM"
             THEN MediumRisk_quotients(current_price, bands.upper_band, bands.lower_band)
             ELSE LowRisk_quotients(current_price, bands.upper_band, bands.lower_band,
                                    atr_values, volume_surge)
    /\ UNCHANGED <<ledger_vars, runner_vars, conc_vars, service_vars, strategy, market,
                   analysis, chart, indicators>>

\* the periods and the candles: flat candles at 10, 11 and 12, and a candle
\* that closes at 11 between a low of 10 and a high of 12
Periods == 2..MaxPeriod
Candles ==
    {[high |-> close, low |-> close, close |-> close] :
        close \in {Num(10), Num(11), Num(12)}}
    \cup {[high |-> Num(12), low |-> Num(10), close |-> Num(11)]}
Charts == UNION {[1..n -> Candles] : n \in 0..MaxLen}

\* the candles of a market that may have stood still or traded at 0
QuotedCandles ==
    {[high |-> close, low |-> close, close |-> close] : close \in {0, Num(10), Num(11)}}
    \cup {[high |-> Num(12), low |-> Num(10), close |-> Num(11)]}
QuotedCharts == UNION {[1..n -> QuotedCandles] : n \in 3..MaxLen}

\* ----------------------------------------------------- specifications
\* no analysis is under way
SignalIdle ==
    /\ strategy = create_strategy("HIGH", Tenths(7))
    /\ market = [ncandles |-> 0, fired |-> [i \in SubRules |-> "none"]]
    /\ analysis = NoAnalysis
    /\ chart = <<>>
    /\ indicators = NoIndicators
    /\ quotients = NoQuotients

\* the engine has not been started
RunnerIdle ==
    /\ running = FALSE
    /\ active_strategies = [id \in ConfigIds |-> NotLoaded]
    /\ today = 0
    /\ utc_today = 0
    /\ nlogs = [id \in ConfigIds |-> 0]
    /\ engine_tasks = [task \in TaskIds |-> "none"]
    /\ shared_engine_task = 0
    /\ reply = "none"
    /\ entries = [id \in ConfigIds |-> [d \in Dates |-> 0]]
    /\ loaded_entries = [id \in ConfigIds |-> [d \in Dates |-> 0]]
    /\ utc_entries = [id \in ConfigIds |-> [d \in Dates |-> 0]]
    /\ tick = [id \in ConfigIds |-> NoTick]
    /\ changes = <<>>
    /\ starts = 0
    /\ ticks = 0
    /\ trace = <<>>
    /\ pause = "none"
    /\ resumed = "none"
    /\ awaiting = 0

\* no request is in flight
CallersIdle ==
    /\ pc = [c \in Callers |-> "idle"]
    /\ request = [c \in Callers |-> NoRequest]
    /\ snapshot = [c \in Callers |-> NoPosition]
    /\ saved_pnl = [c \in Callers |-> 0]
    /\ positions0 = positions

\* the positions table holds no row for a symbol, or the row of a closed position
Init ==
    /\ positions \in {[s \in Symbols |-> IF s \in LedgerSymbols THEN row ELSE NoPosition] :
                         row \in {NoPosition, ClosedPosition}}
    /\ ntrades = 0
    /\ trades = <<>>
    /\ last = NoHandler
    /\ steps = 0
    /\ configs = [id \in ConfigIds |-> AITradingConfig(id = 1, 1)]
    /\ mode = "SIMULATION"
    /\ tz = "UTC"
    /\ RunnerIdle
    /\ CallersIdle
    /\ SignalIdle

Next ==
    \/ \E symbol \in LedgerSymbols, side \in Sides, price \in Prices, qty \in Qtys :
           create_trade(symbol, side, price, qty)
    \/ \E symbol \in LedgerSymbols, side \in Sides, price \in Prices, qty \in FilledQtys :
           place_real_order(symbol, side, price, qty)
    \/ \E symbol \in LedgerSymbols, side \in Sides, price \in Prices, qty \in Qtys :
           place_multi_symbol_order(symbol, side, qty, price)
    \/ \E symbol \in LedgerSymbols, price \in Prices, req \in CloseQtys :
           api_close_position(symbol, price, req)
    \/ \E symbol \in LedgerSymbols, req \in CloseQtys :
           close_symbol_position(symbol, req)
    \/ \E symbol \in LedgerSymbols, latest \in Prices :
           api_get_position(symbol, latest)

Spec == Init /\ [][Next]_vars

\* the runner: the engine is started and stopped, ticks, the date moves on and
\* the price of an open position is polled
RunnerInit ==
    /\ positions = [s \in Symbols |-> NoPosition]
    /\ ntrades = 0
    /\ trades = <<>>
    /\ last = NoHandler
    /\ steps = 0
    /\ configs \in {[id \in ConfigIds |->
                        IF id = 1 THEN AITradingConfig(TRUE, cap) ELSE AITradingConfig(FALSE, 1)] :
                       cap \in Caps}
    /\ mode \in {"SIMULATION", "PAPER"}
    /\ tz \in TimeZones
    /\ RunnerIdle
    /\ CallersIdle
    /\ SignalIdle

RunnerNext ==
    \/ start_ai_trading
    \/ stop_ai_trading
    \/ \E in1 \in InputsOfTick(1), in2 \in InputsOfTick(2) : engine_tick(<<in1, in2>>, FALSE)
    \/ next_day
    \/ utc_midnight
    \/ \E symbol \in LedgerSymbols, latest \in PolledPrices : api_get_position(symbol, latest)

RunnerSpec == RunnerInit /\ [][RunnerNext]_vars

\* the exit check: the engine runs while the price of its position moves
\* around the stop-loss and take-profit levels
ExitInit == RunnerInit /\ tz = "UTC"

ExitNext ==
    \/ start_ai_trading
    \/ \E in1 \in InputsOfTick(1), in2 \in InputsOfTick(2) : engine_tick(<<in1, in2>>, FALSE)
    \/ \E symbol \in LedgerSymbols, latest \in BoundaryPrices :
           api_get_position(symbol, latest)

ExitSpec == ExitInit /\ [][ExitNext]_vars

\* the trade ledger: trades are placed and closed by hand, the engine enters
\* and is forced out of positions, and strategies are reset and deleted
\* the quantity of a trade placed by hand
ArchiveQtys == {Num(10)}

ArchiveInit == RunnerInit /\ tz = "UTC" /\ mode = "SIMULATION"

ArchiveNext ==
    \/ start_ai_trading
    \/ \E in1 \in InputsOfTick(1), in2 \in InputsOfTick(2) : engine_tick(<<in1, in2>>, FALSE)
    \/ \E symbol \in LedgerSymbols, latest \in PolledPrices : api_get_position(symbol, latest)
    \/ \E symbol \in LedgerSymbols, side \in Sides, price \in RunnerPrices,
          qty \in ArchiveQtys :
           create_trade(symbol, side, price, qty)
    \/ \E symbol \in LedgerSymbols, price \in PolledPrices :
           api_close_position(symbol, price, NoQty)
    \/ \E config_id \in ConfigIds : reset_strategy_performance(config_id)
    \/ \E config_id \in ConfigIds : delete_strategy(config_id)

ArchiveSpec == ArchiveInit /\ [][ArchiveNext]_vars

\* the loop of a running engine: two strategies are loaded, and the feed,
\* analyze_market and the database of the exit check may fail
LoopInit ==
    /\ positions = [s \in Symbols |-> NoPosition]
    /\ ntrades = 0
    /\ trades = <<>>
    /\ last = NoHandler
    /\ steps = 0
    /\ configs = [id \in ConfigIds |-> AITradingConfig(TRUE, 1)]
    /\ mode = "SIMULATION"
    /\ tz = "UTC"
    /\ RunnerIdle
    /\ CallersIdle
    /\ SignalIdle

\* an iteration of the loop, with whatever the feed, analyze_market and the
\* database do on it
some_engine_tick ==
    \E in1 \in InputsOfLoop(1), in2 \in InputsOfLoop(2), exit_fault \in BOOLEAN :
        engine_tick(<<in1, in2>>, exit_fault)

LoopNext ==
    \/ start_ai_trading
    \/ some_engine_tick
    \/ \E symbol \in LedgerSymbols, latest \in PolledPrices : api_get_position(symbol, latest)

LoopSpec == LoopInit /\ [][LoopNext]_vars

\* strategies are activated and deactivated while the engine is started,
\* stopped and started again
ToggleNext ==
    \/ \E config_id \in ConfigIds : toggle_strategy(config_id)
    \/ start_ai_trading
    \/ stop_ai_trading
    \/ some_engine_tick

ToggleSpec == LoopInit /\ [][ToggleNext]_vars

\* the loop of an engine with one strategy, started and stopped
FairLoopInit ==
    /\ positions = [s \in Symbols |-> NoPosition]
    /\ ntrades = 0
    /\ trades = <<>>
    /\ last = NoHandler
    /\ steps = 0
    /\ configs = [id \in ConfigIds |-> AITradingConfig(id = 1, 1)]
    /\ mode = "SIMULATION"
    /\ tz = "UTC"
    /\ RunnerIdle
    /\ CallersIdle
    /\ SignalIdle

FairLoopNext ==
    \/ start_ai_trading
    \/ stop_ai_trading
    \/ some_engine_tick

\* the step from one iteration of the loop to the next: what engine_tick
\* requires, and its count of the iterations
next_iteration ==
    /\ ticks < MaxTicks
    /\ running
    /\ pause # "ended"
    /\ ticks' = ticks + 1

\* asyncio resumes the engine's task when its sleep is over: a loop that can
\* make its next iteration eventually makes it
FairLoopSpec == FairLoopInit /\ [][FairLoopNext]_vars /\ WF_ticks(next_iteration)

\* the start and stop endpoints are called in any order while the loop runs
ServiceNext ==
    \/ start_ai_trading
    \/ start_refused
    \/ stop_ai_trading
    \/ stop_idle
    \/ some_engine_tick

ServiceSpec == FairLoopInit /\ [][ServiceNext]_vars

\* the engine's task and a stop request: the iterations are made step by step,
\* from one suspension of the task to the next
StopNext ==
    \/ start_ai_trading
    \/ stop_ai_trading
    \/ \E exit_fault \in BOOLEAN : iteration_begins(exit_fault)
    \/ \E id \in ConfigIds, exit_fault \in BOOLEAN :
           /\ awaiting = id
           /\ \E feed \in InputsOfLoop(id) : candles_fetched(feed, exit_fault)

StopSpec == LoopInit /\ [][StopNext]_vars

\* the rows a symbol can have when its price comes: none, the row of a closed
\* position, or a long or short position as a trade left it
PricedRows ==
    {NoPosition, ClosedPosition}
    \cup {create_or_update_position(NoPosition, "BUY", Num(10), Num(100), Num(100)),
          create_or_update_position(NoPosition, "SELL", Num(10), Num(100), Num(100)),
          create_or_update_position(NoPosition, "SELL", Num(15), Num(110), Num(100))}

\* the price feed: prices come for symbols with and without a position
PriceInit ==
    /\ positions \in [Symbols -> PricedRows]
    /\ ntrades = 0
    /\ trades = <<>>
    /\ last = NoHandler
    /\ steps = 0
    /\ configs = [id \in ConfigIds |-> AITradingConfig(id = 1, 1)]
    /\ mode = "SIMULATION"
    /\ tz = "UTC"
    /\ RunnerIdle
    /\ CallersIdle
    /\ SignalIdle

PriceNext == \E symbol \in Symbols, latest \in Prices : price_update(symbol, latest)

PriceSpec == PriceInit /\ [][PriceNext]_vars

\* the ledger's handlers on a position that is already held and priced
MarkInit ==
    /\ positions \in {[s \in Symbols |-> IF s \in LedgerSymbols THEN row ELSE NoPosition] :
                         row \in PricedRows}
    /\ ntrades = 0
    /\ trades = <<>>
    /\ last = NoHandler
    /\ steps = 0
    /\ configs = [id \in ConfigIds |-> AITradingConfig(id = 1, 1)]
    /\ mode = "SIMULATION"
    /\ tz = "UTC"
    /\ RunnerIdle
    /\ CallersIdle
    /\ SignalIdle

MarkSpec == MarkInit /\ [][Next]_vars

\* the indicators are computed once for a chart of any length up to MaxLen
IndicatorInit ==
    /\ positions = [s \in Symbols |-> NoPosition]
    /\ ntrades = 0
    /\ trades = <<>>
    /\ last = NoHandler
    /\ steps = 0
    /\ configs = [id \in ConfigIds |-> AITradingConfig(id = 1, 1)]
    /\ mode = "SIMULATION"
    /\ tz = "UTC"
    /\ RunnerIdle
    /\ CallersIdle
    /\ strategy = create_strategy("HIGH", Tenths(7))
    /\ market = [ncandles |-> 0, fired |-> [i \in SubRules |-> "none"]]
    /\ analysis = NoAnalysis
    /\ chart \in Charts
    /\ indicators = NoIndicators
    /\ quotients = NoQuotients

IndicatorNext == \E period \in Periods : compute_indicators(period)

IndicatorSpec == IndicatorInit /\ [][IndicatorNext]_vars

\* a strategy of any variant takes its quotients of a chart
QuotientInit ==
    /\ positions = [s \in Symbols |-> NoPosition]
    /\ ntrades = 0
    /\ trades = <<>>
    /\ last = NoHandler
    /\ steps = 0
    /\ configs = [id \in ConfigIds |-> AITradingConfig(id = 1, 1)]
    /\ mode = "SIMULATION"
    /\ tz = "UTC"
    /\ RunnerIdle
    /\ CallersIdle
    /\ strategy \in {create_strategy(risk_level, Tenths(7)) : risk_level \in RiskLevels}
    /\ market = [ncandles |-> 0, fired |-> [i \in SubRules |-> "none"]]
    /\ analysis = NoAnalysis
    /\ chart \in QuotedCharts
    /\ indicators = NoIndicators
    /\ quotients = NoQuotients

QuotientNext ==
    \E period \in Periods, volume_surge \in BOOLEAN :
        _analyze_signals_quotients(period, volume_surge)

QuotientSpec == QuotientInit /\ [][QuotientNext]_vars

\* the signal engine: a strategy of any variant and threshold analyzes a market
SignalInit ==
    /\ positions = [s \in Symbols |-> NoPosition]
    /\ ntrades = 0
    /\ trades = <<>>
    /\ last = NoHandler
    /\ steps = 0
    /\ configs = [id \in ConfigIds |-> AITradingConfig(id = 1, 1)]
    /\ mode = "SIMULATION"
    /\ tz = "UTC"
    /\ RunnerIdle
    /\ CallersIdle
    /\ strategy \in {create_strategy(risk_level, threshold) :
                        risk_level \in RiskLevels, threshold \in Thresholds}
    /\ market \in Markets
    /\ analysis = NoAnalysis
    /\ chart = <<>>
    /\ indicators = NoIndicators
    /\ quotients = NoQuotients

SignalNext == analyze

SignalSpec == SignalInit /\ [][SignalNext]_vars

\* strategies are created and activated, and the engine runs them
RiskInputs == {"low", "EXTREME"}
Timeframes == {"none", "1m"}

CreateInit ==
    /\ positions = [s \in Symbols |-> NoPosition]
    /\ ntrades = 0
    /\ trades = <<>>
    /\ last = NoHandler
    /\ steps = 0
    /\ configs = [id \in ConfigIds |-> NoConfig]
    /\ mode = "SIMULATION"
    /\ tz = "UTC"
    /\ RunnerIdle
    /\ CallersIdle
    /\ SignalIdle

CreateNext ==
    \/ \E risk_level \in RiskInputs, timeframe \in Timeframes :
           api_create_strategy(risk_level, timeframe)
    \/ \E config_id \in ConfigIds : toggle_strategy(config_id)
    \/ start_ai_trading
    \/ some_engine_tick

CreateSpec == CreateInit /\ [][CreateNext]_vars

\* the signal engine of an operator who asks for a confidence of 0.9
StrictInit ==
    /\ positions = [s \in Symbols |-> NoPosition]
    /\ ntrades = 0
    /\ trades = <<>>
    /\ last = NoHandler
    /\ steps = 0
    /\ configs = [id \in ConfigIds |-> AITradingConfig(id = 1, 1)]
    /\ mode = "SIMULATION"
    /\ tz = "UTC"
    /\ RunnerIdle
    /\ CallersIdle
    /\ strategy \in {create_strategy(risk_level, Tenths(9)) : risk_level \in RiskLevels}
    /\ market \in Markets
    /\ analysis = NoAnalysis
    /\ chart = <<>>
    /\ indicators = NoIndicators
    /\ quotients = NoQuotients

StrictNext == analyze

StrictSpec == StrictInit /\ [][StrictNext]_vars

\* two requests in flight on a table that holds, for every symbol, no row or a
\* long position
ConcInit ==
    /\ positions \in [Symbols -> {NoPosition, LongPosition}]
    /\ ntrades = 0
    /\ trades = <<>>
    /\ last = NoHandler
    /\ steps = 0
    /\ configs = [id \in ConfigIds |-> AITradingConfig(id = 1, 1)]
    /\ mode = "SIMULATION"
    /\ tz = "UTC"
    /\ RunnerIdle
    /\ CallersIdle
    /\ SignalIdle

ConcNext ==
    \/ \E c \in Callers, rq \in Requests : read_position(c, rq)
    \/ \E c \in Callers : write_position(c)

ConcSpec == ConcInit /\ [][ConcNext]_vars

\* =========================================================== the claims
\* the section 4.3 table, as the specification states it
FiveCases == {"open", "accumulate", "partial_close", "full_close", "flip"}
TradeOps == {"trade", "real_order", "multi_order"}

\* FLAT: no active row, or a row with qty 0, or a row with side none
Flat(p) == ~p.present \/ p.qty = 0 \/ p.side = "none"

\* the case the table selects from (flat?, same side?, qty <, =, > position qty)
SelectedCase(pre, side, qty) ==
    IF Flat(pre) THEN "open"
    ELSE IF side = pre.side THEN "accumulate"
    ELSE IF qty < pre.qty THEN "partial_close"
    ELSE IF qty = pre.qty THEN "full_close"
    ELSE "flip"

\* realized PnL of closing q of a position: (price - entry) * q LONG, (entry - price) * q SHORT
Realized(side, entry, price, q) ==
    IF side = "BUY" THEN FMul(FSub(price, entry), q) ELSE FMul(FSub(entry, price), q)

\* the last handler applied a trade of qty > 0
TradeApplied == last.op \in TradeOps /\ last.qty > 0
\* the row of the last handler's symbol after it ran
Post == positions[last.symbol]

\* C1: every trade application with qty > 0 takes exactly the one case of
\* {open, accumulate, partial close, full close, flip} that (flat?, same side?,
\* qty <, =, > position qty) selects, and returns realized PnL 0 for open and
\* accumulate.
C1_ExactlyOneCase ==
    TradeApplied =>
        /\ last.branch \in FiveCases
        /\ last.branch = SelectedCase(last.pre, last.side, last.qty)
        /\ (last.branch \in {"open", "accumulate"} => last.pnl = 0)
        /\ (last.branch \in {"open", "flip"} => Post.side = last.side)
        /\ (last.branch \in {"accumulate", "partial_close"} => Post.side = last.pre.side)
        /\ (last.branch = "full_close" => Post.side = "none")

C1_Witness ==
    /\ TradeApplied
    /\ last.pre.present /\ last.pre.qty = 0 /\ last.pre.side # "none"
    /\ last.branch = "open"

\* C2 (as claimed): every position row has side none iff qty = 0.
C2_SideNoneIffQtyZero ==
    \A s \in Symbols :
        positions[s].present => (positions[s].side = "none" <=> positions[s].qty = 0)

\* C3: a trade on the opposite side with qty > position qty returns the PnL of
\* closing the whole old position and leaves side = incoming side,
\* qty = incoming - old, entry = trade price; LONG 10 @ 100 then SELL 15 @ 110
\* gives PnL 100 and SHORT 5 @ 110.
C3_Flip ==
    (TradeApplied /\ ~Flat(last.pre) /\ last.side # last.pre.side
                  /\ last.qty > last.pre.qty) =>
        /\ last.pnl = Realized(last.pre.side, last.pre.entry_price, last.price, last.pre.qty)
        /\ last.trade.pnl = last.pnl
        /\ Post.side = last.side
        /\ Post.qty = FSub(last.qty, last.pre.qty)
        /\ Post.entry_price = last.price
        /\ (/\ last.pre.side = "BUY" /\ last.pre.qty = Num(10)
            /\ last.pre.entry_price = Num(100)
            /\ last.side = "SELL" /\ last.qty = Num(15) /\ last.price = Num(110))
           => (last.pnl = Num(100) /\ Post.side = "SELL" /\ Post.qty = Num(5)
               /\ Post.entry_price = Num(110))

C3_Witness ==
    /\ last.op = "trade"
    /\ last.pre.side = "BUY" /\ last.pre.qty = Num(10) /\ last.pre.entry_price = Num(100)
    /\ last.side = "SELL" /\ last.qty = Num(15) /\ last.price = Num(110)
    /\ Post.side = "SELL" /\ Post.qty = Num(5)

\* C4: a trade on the opposite side with qty < position qty returns the PnL of
\* closing the incoming quantity, lowers qty by the incoming quantity and
\* leaves side and entry price as they were.
C4_PartialClose ==
    (TradeApplied /\ ~Flat(last.pre) /\ last.side # last.pre.side
                  /\ last.qty < last.pre.qty) =>
        /\ last.pnl = Realized(last.pre.side, last.pre.entry_price, last.price, last.qty)
        /\ Post.qty = FSub(last.pre.qty, last.qty)
        /\ Post.side = last.pre.side
        /\ Post.entry_price = last.pre.entry_price

C4_Witness ==
    /\ last.op = "trade" /\ last.branch = "partial_close"
    /\ last.pre.side = "SELL" /\ last.qty > 0 /\ last.pnl < 0
    /\ Post.qty > 0 /\ Post.qty < last.pre.qty

\* C5: a trade on the opposite side with qty = position qty returns the PnL of
\* closing that quantity and leaves qty 0 and side none; closing at the entry
\* price returns PnL 0.
C5_FullClose ==
    (TradeApplied /\ ~Flat(last.pre) /\ last.side # last.pre.side
                  /\ last.qty = last.pre.qty) =>
        /\ last.pnl = Realized(last.pre.side, last.pre.entry_price, last.price, last.qty)
        /\ Post.qty = 0
        /\ Post.side = "none"
        /\ (last.price = last.pre.entry_price => last.pnl = 0)

C5_Witness ==
    /\ last.op = "trade" /\ last.branch = "full_close"
    /\ last.pre.side = "BUY" /\ last.pre.qty > 0
    /\ last.price = last.pre.entry_price /\ last.price > 0
    /\ last.pnl = 0 /\ Post.qty = 0 /\ Post.side = "none"

\* the accumulate formula: PnL 0, qty = old + incoming, side kept,
\* entry = (entry * old_qty + price * incoming_qty) / new_qty
AccumulateFormula ==
    (TradeApplied /\ ~Flat(last.pre) /\ last.side = last.pre.side) =>
        /\ last.pnl = 0
        /\ Post.qty = FAdd(last.pre.qty, last.qty)
        /\ Post.side = last.pre.side
        /\ Post.entry_price =
               FDiv(FAdd(FMul(last.pre.entry_price, last.pre.qty),
                         FMul(last.price, last.qty)), Post.qty)

\* the second of two same-side trades of equal price and quantity on a flat position
SecondOfTwoEqualTrades ==
    /\ TradeApplied /\ ~Flat(last.pre)
    /\ last.side = last.pre.side
    /\ last.qty = last.pre.qty
    /\ last.price = last.pre.entry_price

\* C6 (as claimed): the accumulate formula, and two same-side trades of equal
\* price and quantity on a flat position leave entry_price equal to that price.
C6_AccumulateAsClaimed ==
    /\ AccumulateFormula
    /\ SecondOfTwoEqualTrades => Post.entry_price = last.price

\* price * qty is a float: the product is computed without rounding
ExactProduct(price, qty) == FMul(price, qty) * Unit = price * qty

\* C6 (amended): the accumulate formula in float arithmetic, and two same-side
\* trades of equal price and quantity on a flat position leave entry_price
\* equal to that price whenever price * qty is computed without rounding.
C6_Accumulate ==
    /\ AccumulateFormula
    /\ (SecondOfTwoEqualTrades /\ ExactProduct(last.price, last.qty))
           => Post.entry_price = last.price

C6_Witness ==
    /\ last.op = "trade" /\ SecondOfTwoEqualTrades
    /\ last.price = Num(100) /\ last.qty = Num(16)
    /\ ExactProduct(last.price, last.qty)
    /\ Post.qty = Num(32) /\ Post.entry_price = Num(100)

\* C7: a trade on a FLAT symbol (no row, a row with qty 0, a row with side
\* none) leaves side = incoming side, qty = incoming qty, entry = trade price
\* and returns PnL 0, whatever the row held.
C7_Open ==
    (TradeApplied /\ Flat(last.pre)) =>
        /\ Post.present
        /\ Post.side = last.side
        /\ Post.qty = last.qty
        /\ Post.entry_price = last.price
        /\ last.pnl = 0
        /\ last.trade.pnl = 0

C7_Witness ==
    /\ last.op = "trade" /\ last.branch = "open"
    /\ last.pre.present /\ last.pre.qty = 0 /\ last.pre.side = "BUY"
    /\ last.pre.entry_price # last.price
    /\ Post.side = "SELL" /\ Post.qty > 0 /\ Post.entry_price = last.price

\* what the section 4.3 table makes of a position and an incoming trade
Section43(pre, side, price, qty) ==
    LET case == SelectedCase(pre, side, qty)
    IN  IF case = "open"
        THEN [side |-> side, qty |-> qty, entry_price |-> price, pnl |-> 0]
        ELSE IF case = "accumulate"
        THEN [side |-> pre.side, qty |-> FAdd(pre.qty, qty),
              entry_price |-> FDiv(FAdd(FMul(pre.entry_price, pre.qty), FMul(price, qty)),
                                   FAdd(pre.qty, qty)),
              pnl |-> 0]
        ELSE IF case = "partial_close"
        THEN [side |-> pre.side, qty |-> FSub(pre.qty, qty), entry_price |-> pre.entry_price,
              pnl |-> Realized(pre.side, pre.entry_price, price, qty)]
        ELSE IF case = "full_close"
        THEN [side |-> "none", qty |-> 0, entry_price |-> 0,
              pnl |-> Realized(pre.side, pre.entry_price, price, qty)]
        ELSE [side |-> side, qty |-> FSub(qty, pre.qty), entry_price |-> price,
              pnl |-> Realized(pre.side, pre.entry_price, price, pre.qty)]

\* the change pre -> post with pnl on its trade is the section 4.3 transition
\* of the trade (side, price, qty); the table leaves the entry price of a
\* closed position open
IsSection43Transition(pre, side, price, qty, post, pnl) ==
    LET t == Section43(pre, side, price, qty)
    IN  /\ post.side = t.side
        /\ post.qty = t.qty
        /\ (t.side # "none" => post.entry_price = t.entry_price)
        /\ pnl = t.pnl

\* C8 (as claimed): every change of a position's side, qty or entry price, by
\* the trade API, a real-order fill, a multi-symbol order, the runner's entry
\* or the forced exit, is the section 4.3 transition of its trade applied to
\* the previous state, with that transition's realized PnL on the saved trade.
C8_OnlyLedgerTransitions ==
    /\ \A i \in DOMAIN changes :
           changes[i].qty > 0 =>
               IsSection43Transition(changes[i].pre, changes[i].side, changes[i].price,
                                     changes[i].qty, changes[i].post, changes[i].trade.pnl)
    /\ TradeApplied =>
           IsSection43Transition(last.pre, last.side, last.price, last.qty, Post,
                                 last.trade.pnl)

\* the two requests applied one after the other, first a then b, to the table
\* both found
Applied(table, rq) ==
    LET position == get_position(table, rq.symbol)
        r == computed(rq, position)
    IN  IF refused(rq, position) THEN [table |-> table, pnl |-> 0]
        ELSE [table |-> [table EXCEPT ![rq.symbol] = r.position], pnl |-> r.pnl]

InOrder(a, b) ==
    LET first == Applied(positions0, request[a])
        second == Applied(first.table, request[b])
    IN  /\ positions = second.table
        /\ saved_pnl[a] = first.pnl
        /\ saved_pnl[b] = second.pnl

\* C9 (as claimed): when two callers apply trades or closes concurrently, the
\* final positions and the realized PnLs are those of one of the two
\* sequential orders of the two operations.
C9_Serialized ==
    (\A c \in Callers : pc[c] = "done") => (InOrder(1, 2) \/ InOrder(2, 1))

\* a tick that finds the counter at the cap does nothing for the strategy:
\* no candles fetched, no analysis log, no trade
LimitTickDoesNothing ==
    \A id \in ConfigIds :
        (tick[id].ran /\ tick[id].counter >= configs[id].max_daily_trades) =>
            /\ tick[id].outcome = "limit"
            /\ ~tick[id].fetched
            /\ tick[id].logged = 0
            /\ tick[id].traded = 0
            /\ \A i \in DOMAIN changes :
                   ~(changes[i].op = "entry" /\ changes[i].config_id = id)

\* a strategy with max_daily_trades = 0 never trades
ZeroCapNeverTrades ==
    \A id \in ConfigIds :
        configs[id].max_daily_trades = 0 => \A d \in Dates : entries[id][d] = 0

\* C10 (as claimed): for every strategy and date the entries the runner makes
\* never exceed max_daily_trades; a tick at the cap does nothing; a cap of 0
\* never trades.
C10_DailyCapAsClaimed ==
    /\ \A id \in ConfigIds, d \in Dates : entries[id][d] <= configs[id].max_daily_trades
    /\ LimitTickDoesNothing
    /\ ZeroCapNeverTrades

\* C10 (amended): between one load of a strategy (engine start, which puts its
\* counter back to 0) and the next, the entries the runner makes for it on a
\* date never exceed max_daily_trades; a tick that finds the counter at the cap
\* fetches no candles and produces no analysis, log entry or trade; a strategy
\* with max_daily_trades = 0 never trades.
C10_DailyCap ==
    /\ \A id \in ConfigIds, d \in Dates :
           loaded_entries[id][d] <= configs[id].max_daily_trades
    /\ LimitTickDoesNothing
    /\ ZeroCapNeverTrades

C10_Witness ==
    /\ configs[1].max_daily_trades = 1
    /\ loaded_entries[1][today] = 1
    /\ tick[1].ran /\ tick[1].counter = 1 /\ tick[1].outcome = "limit"
    /\ ticks = 2

\* C11 (as claimed): the daily counter of a loaded strategy is put back to 0 on
\* its first tick and on the first tick whose UTC date differs from the date
\* of its tick before, and on no other tick; a strategy with max_daily_trades = 1 that already traded on a UTC
\* date is skipped on every later tick of that date, makes at most one entry
\* on a UTC date, and is evaluated again on the first tick of the next date.
C11_UtcRollover ==
    \A id \in ConfigIds :
        LET t == tick[id]
            before == utc_entries[id][t.utc] - t.traded
        IN  /\ t.ran => (t.rolled <=> t.prev_utc # SomeDate(t.utc))
            /\ configs[id].max_daily_trades = 1 =>
                   /\ \A d \in Dates : utc_entries[id][d] <= 1
                   /\ (t.ran /\ utc_today = t.utc /\ before >= 1) =>
                          (t.outcome = "limit" /\ ~t.fetched)
                   /\ (t.ran /\ utc_today = t.utc /\ t.prev_utc # SomeDate(t.utc)) =>
                          t.outcome # "limit"

\* pnl_pct as section 4.4 defines it, in floats
PnlPct(side, entry, latest) ==
    IF side = "BUY" THEN FScale(FRatio(FSub(latest, entry), entry), Num(100))
    ELSE FScale(FRatio(FSub(entry, latest), entry), Num(100))

\* the exit check of the last tick closed the position it found for the
\* strategy, giving the reason
ForcedClose(id, reason) ==
    \E i \in DOMAIN changes :
        /\ changes[i].config_id = id
        /\ changes[i].op = reason
        /\ changes[i].pre = tick[id].seen
        /\ changes[i].post.qty = 0

ExitReasons == {"STOP_LOSS", "TAKE_PROFIT"}

\* the exit check of the last tick found an open position for the strategy
ExitChecked(id) == tick[id].exit \in {"hold"} \cup ExitReasons

EntriesOf(id) ==
    {i \in DOMAIN changes : changes[i].config_id = id /\ changes[i].op = "entry"}

\* C13 (as claimed): on a tick the runner opens a position for a strategy only
\* if the signal is BUY or SELL, the confidence is at least the strategy's
\* threshold and the symbol has no open position on the side of the signal;
\* it then changes the position, saves exactly one trade and adds exactly 1 to
\* the daily counter; otherwise entry processing leaves the position, the
\* trades and the daily counter as they were.
C13_EntryGating ==
    \A id \in ConfigIds :
        tick[id].ran =>
            LET t == tick[id]
                counted == active_strategies[id].daily_trades - t.counter
            IN  IF EntriesOf(id) # {}
                THEN /\ t.signal \in Sides
                     /\ t.confidence >= configs[id].confidence_threshold
                     /\ ~(t.held.present /\ t.held.qty > 0 /\ t.held.side = t.signal)
                     /\ Cardinality(EntriesOf(id)) = 1
                     /\ \A i \in EntriesOf(id) :
                            /\ changes[i].pre = t.held
                            /\ changes[i].post # changes[i].pre
                            /\ changes[i].side = t.signal
                     /\ t.traded = 1
                     /\ counted = 1
                ELSE /\ t.traded = 0
                     /\ counted = 0

\* the numbers of sub-rules that fired for a side, and the scores of the variant
BuyCount == Cardinality({i \in SubRules : market.fired[i] = "BUY"})
SellCount == Cardinality({i \in SubRules : market.fired[i] = "SELL"})
FiredCount == BuyCount + SellCount

ScoresOf(risk_level) ==
    IF risk_level = "HIGH" THEN HighRiskScores
    ELSE IF risk_level = "MEDIUM" THEN MediumRiskScores
    ELSE LowRiskScores

\* the exact sum of the scores of the sub-rules 1..i that fired
RECURSIVE TotalScore(_)
TotalScore(i) ==
    IF i = 0 THEN 0
    ELSE TotalScore(i - 1)
         + (IF market.fired[i] = "none" THEN 0 ELSE ScoresOf(strategy.risk_level)[i])

\* the mean of the scores of the fired sub-rules (0 if none fired) is at least
\* the threshold
MeanReaches(threshold) ==
    IF FiredCount = 0 THEN 0 >= threshold
    ELSE TotalScore(8) >= threshold * FiredCount

\* the decision rule with the given test of the confidence
DecisionRule(confident) ==
    /\ analysis.signal \in {"BUY", "SELL", "HOLD"}
    /\ analysis.signal = "BUY" <=> (BuyCount > SellCount /\ confident)
    /\ analysis.signal = "SELL" <=> (SellCount > BuyCount /\ confident)
    /\ BuyCount = SellCount => analysis.signal = "HOLD"

\* C14 (as claimed): for each variant the signal is BUY iff buy_count >
\* sell_count and the mean of the weights of the fired sub-rules is at least
\* the threshold, SELL iff sell_count > buy_count and the mean is at least the
\* threshold, HOLD otherwise; a tie or no fired sub-rule gives HOLD.
C14_DecisionAsClaimed ==
    analysis.evaluated => DecisionRule(MeanReaches(strategy.config.confidence_threshold))

\* C14 (amended): the same rule with avg_confidence the float the code
\* computes and returns as "confidence": the scores added from the left and
\* the sum divided by their number, every operation rounded; it is 0 when no
\* sub-rule fired and the score itself when one fired.
C14_Decision ==
    analysis.evaluated =>
        /\ DecisionRule(analysis.confidence >= strategy.config.confidence_threshold)
        /\ FiredCount = 0 => analysis.confidence = 0
        /\ FiredCount = 1 => analysis.confidence = TotalScore(8)

\* more BUY than SELL sub-rules fired with a confidence at the threshold
C14_Witness ==
    /\ analysis.evaluated
    /\ analysis.signal = "BUY"
    /\ SellCount > 0
    /\ analysis.confidence = strategy.config.confidence_threshold
    /\ strategy.config.confidence_threshold > 0

\* C15: analyze_market called with fewer than 50 candles returns HOLD with
\* confidence 0 and the reason "Insufficient data", whatever the variant and
\* whatever sub-rules the candles would fire, and evaluates no sub-rule.
C15_InsufficientData ==
    (analysis # NoAnalysis /\ market.ncandles < 50) =>
        /\ analysis.signal = "HOLD"
        /\ analysis.confidence = 0
        /\ analysis.reason = "Insufficient data"
        /\ ~analysis.evaluated

\* 49 candles that would fire every BUY sub-rule
C15_Witness ==
    /\ analysis # NoAnalysis
    /\ market.ncandles = 49
    /\ \A i \in SubRules : market.fired[i] = "BUY"
    /\ analysis.reason = "Insufficient data"

\* the engine steps once around its loop
EngineTicks == ticks' = ticks + 1

\* the feed gave the strategy fewer than 50 candles on that tick: none, too
\* few, or it raised
FewCandles(id) ==
    /\ EngineTicks
    /\ active_strategies[id].loaded
    /\ tick'[id].fetched
    /\ tick'[id].ncandles < 50

AnalysisLogs(id) ==
    {i \in DOMAIN trace : trace[i].what = "ANALYSIS" /\ trace[i].config_id = id}
EntryTrades(id) ==
    {i \in DOMAIN trace : /\ trace[i].what = "trade"
                          /\ trace[i].config_id = id
                          /\ \A j \in 1..i : trace[j].what # "check_exit_conditions"}

\* analyze_market returned an analysis to the strategy on the last tick
Analyzed(id) == tick[id].ran /\ tick[id].signal \in {"BUY", "SELL", "HOLD"}

StepsOf(what) == {i \in DOMAIN trace : trace[i].what = what}
\* the places where _process_strategy was called for the strategy
Processed(id) == {i \in StepsOf("_process_strategy") : trace[i].config_id = id}
\* the steps of entry processing
EntrySteps == {"_process_strategy", "ANALYSIS", "trade", "ENTRY", "except"}
\* the places before the exit check: the entry processing of the iteration
EntryProcessing ==
    {i \in DOMAIN trace : \A j \in 1..i : trace[j].what # "check_exit_conditions"}

\* C18: in an iteration of the loop every loaded strategy is entry-processed
\* once, the strategies one after the other (all the steps of one before the
\* first step of the next), and the exit check is run once, after the entry
\* processing of the last strategy.  The trace is the one of the last
\* iteration, so the exit check precedes the entry processing of the next.
C18_TickOrder ==
    ticks > 0 =>
        /\ \A id \in ConfigIds :
               Cardinality(Processed(id)) = (IF active_strategies[id].loaded THEN 1 ELSE 0)
        /\ \A i \in EntryProcessing : \A j \in EntryProcessing :
               i < j => trace[i].config_id <= trace[j].config_id
        /\ Cardinality(StepsOf("check_exit_conditions")) = 1
        /\ \A i \in DOMAIN trace :
               /\ i \in EntryProcessing => trace[i].what \in EntrySteps
               /\ i \notin EntryProcessing =>
                      trace[i].what \in {"check_exit_conditions", "trade", "EXIT", "except"}
               /\ trace[i].what = "_process_strategy" => i \in EntryProcessing

\* the second iteration: the first strategy is at its limit, the analysis of
\* the second one raises, and the exit check closes the position
C18_Witness ==
    /\ ticks = 2
    /\ tick[1].outcome = "limit"
    /\ tick[2].outcome = "raised"
    /\ StepsOf("EXIT") # {}
    /\ C18_TickOrder

\* the strategy's entry processing failed on the last iteration: its fetch
\* raised, or a later step did
Failed(id) ==
    /\ Processed(id) # {}
    /\ tick[id].feed_raised \/ tick[id].outcome = "raised"

\* C19: when the candle fetch or a later step of the entry processing of one
\* strategy fails in an iteration, every other loaded strategy is entry-processed
\* in that iteration all the same, those after the failing one included, and
\* the exit check of the iteration is run.
C19_FailureIsolation ==
    \A id \in ConfigIds :
        (ticks > 0 /\ Failed(id)) =>
            /\ \A other \in ConfigIds \ {id} :
                   active_strategies[other].loaded => Processed(other) # {}
            /\ StepsOf("check_exit_conditions") # {}

\* the analysis of the first strategy raised; the second one analyzed, logged
\* and entered after it, and the exit check looked at its position
C19_Witness ==
    /\ tick[1].outcome = "raised"
    /\ \E i \in StepsOf("except") : trace[i].config_id = 1
    /\ tick[2].outcome = "entry"
    /\ \A i \in Processed(1) : \A j \in Processed(2) : i < j
    /\ tick[2].exit = "hold"
    /\ C19_FailureIsolation

\* an exception was raised in the last iteration the engine made since it was
\* started: one of a strategy, caught in _process_strategies, or one of the
\* exit check, caught by the loop
ErrorInTick == pause # "none" /\ StepsOf("except") # {}

\* the loop goes on from where it is: it makes its next iteration, or the
\* engine is stopped
GoesOn(n) == (running /\ ticks = n /\ ErrorInTick) ~> (ticks = n + 1 \/ ~running)

\* C20: while the engine runs, an exception raised inside an iteration never
\* ends the loop.  One that reaches the loop is caught there and the loop
\* sleeps its five seconds, one of a strategy is caught before and the loop
\* sleeps its second; in both cases the next iteration is eventually made,
\* unless the engine is stopped first.
C20_LoopResilience ==
    /\ [](ErrorInTick => pause \in {"sleep1", "sleep5"})
    /\ []((ErrorInTick /\ \E i \in StepsOf("except") : trace[i].config_id = 0) =>
              pause = "sleep5")
    /\ \A n \in 1..(MaxTicks - 1) : GoesOn(n)

\* an iteration made after the five-second sleep that followed an exception
\* of the exit check
C20_Witness ==
    /\ running
    /\ ticks = 2
    /\ resumed = "sleep5"
    /\ pause = "sleep1"

\* C21: a stop lets the iteration in progress run to its end.  Whenever the
\* engine's task is not in the middle of an iteration, the last iteration it
\* began has come to its exit check.
C21_CooperativeStop ==
    (awaiting = 0 /\ trace # <<>>) => StepsOf("check_exit_conditions") # {}

\* update_position_price ran for a symbol
PriceUpdated == last'.op = "update_position_price" /\ steps' = steps + 1

\* C22: update_position_price changes nothing but latest_price and
\* unrealized_pnl of the symbol's row: side, qty, entry_price and is_active
\* stay, no trade is saved and no other row is touched.  For an open position
\* the new unrealized_pnl is (latest - entry) * qty on a BUY and
\* (entry - latest) * qty on a SELL; without an active row nothing changes.
C22_PriceUpdateFrame ==
    [][PriceUpdated =>
          LET symbol == last'.symbol
              latest == last'.price
              pre == positions[symbol]
              post == positions'[symbol]
          IN  /\ \A other \in Symbols \ {symbol} : positions'[other] = positions[other]
              /\ ntrades' = ntrades
              /\ post.present = pre.present
              /\ post.side = pre.side
              /\ post.qty = pre.qty
              /\ post.entry_price = pre.entry_price
              /\ post.is_active = pre.is_active
              /\ ~(pre.present /\ pre.is_active) => post = pre
              /\ (pre.present /\ pre.is_active) => post.latest_price = latest
              /\ (pre.present /\ pre.is_active /\ pre.qty > 0 /\ pre.side = "BUY") =>
                     post.unrealized_pnl = FMul(FSub(latest, pre.entry_price), pre.qty)
              /\ (pre.present /\ pre.is_active /\ pre.qty > 0 /\ pre.side = "SELL") =>
                     post.unrealized_pnl = FMul(FSub(pre.entry_price, latest), pre.qty)
              /\ (pre.present /\ pre.qty = 0) => post.unrealized_pnl = pre.unrealized_pnl]_vars

\* the price of a short position went from 100 to 110 and its unrealized_pnl
\* became a loss
C22_Witness ==
    /\ last.op = "update_position_price"
    /\ last.pre.side = "SELL"
    /\ last.pre.qty > 0
    /\ last.pre.latest_price = Num(100)
    /\ last.price = Num(110)
    /\ positions[last.symbol].latest_price = Num(110)
    /\ positions[last.symbol].unrealized_pnl < 0

\* ----------------------------------------------------------------------
\* C23  Every list an indicator returns (sma, ema, rsi, the three lists of
\* macd, the three bands of bollinger_bands, %K and %D of stochastic, atr,
\* williams_r, cci, adx) has exactly as many elements as the chart has
\* candles, for a chart of any length from 0 on (shorter than the period
\* included), and no indicator raises.
Computed == indicators # NoIndicators

Outputs ==
    <<indicators.sma, indicators.ema, indicators.rsi.values,
      indicators.macd.macd_line, indicators.macd.signal_line, indicators.macd.histogram,
      indicators.bollinger_bands.upper_band, indicators.bollinger_bands.sma,
      indicators.bollinger_bands.lower_band,
      indicators.stochastic.k_percent, indicators.stochastic.d_percent,
      indicators.atr, indicators.williams_r.values, indicators.cci.values,
      indicators.adx.values>>

C23_IndicatorLengths ==
    Computed => \A o \in DOMAIN Outputs : Len(Outputs[o]) = Len(chart)

\* the indicators of a chart of one candle, shorter than the period
C23_Witness ==
    /\ Computed
    /\ Len(chart) = 1
    /\ Len(chart) < indicators.period
    /\ \A o \in DOMAIN Outputs : Len(Outputs[o]) = 1

\* ----------------------------------------------------------------------
\* C24  Where an oscillator has no full window yet it returns its neutral
\* value: rsi is exactly 50 on the first period candles (on all of them when
\* the chart has no more than period candles), williams_r is exactly -50 on
\* the first period - 1 candles, and cci is exactly 0 on the first period - 1
\* candles and on every candle whose mean deviation is 0.
WarmUpRsi(k) == k <= indicators.period \/ Len(chart) < indicators.period + 1

WarmUp(k) == k < indicators.period

ZeroDeviation(k) ==
    mean_deviation_of(highs_of(chart), lows_of(chart), closes_of(chart),
                      indicators.period, k) = 0

C24_NeutralFill ==
    Computed =>
        \A k \in 1..Len(chart) :
            /\ WarmUpRsi(k) => indicators.rsi.values[k] = Num(50)
            /\ WarmUp(k) => indicators.williams_r.values[k] = Num(-50)
            /\ (WarmUp(k) \/ ZeroDeviation(k)) => indicators.cci.values[k] = 0

\* a chart longer than the period whose last window has a mean deviation of
\* 0, after candles that moved
C24_Witness ==
    /\ Computed
    /\ Len(chart) > indicators.period + 1
    /\ indicators.rsi.values[1] = Num(50)
    /\ indicators.williams_r.values[1] = Num(-50)
    /\ indicators.cci.values[1] = 0
    /\ ~WarmUp(Len(chart)) /\ ZeroDeviation(Len(chart))
    /\ indicators.cci.values[Len(chart)] = 0
    /\ \E k \in 1..Len(chart) : indicators.cci.values[k] # 0

\* ----------------------------------------------------------------------
\* C25  For a chart of at least period + 1 candles, the rsi of every candle
\* from index period on, the last one included, is the one of the average
\* gain and average loss of the period price changes that end at that
\* candle; when the closes rise strictly, the last rsi is above 70 and
\* sub-rule 1 of the HIGH variant appends SELL.
\* the rsi of the period price changes that end at candle k (k > period)
AlignedRsi(k) ==
    LET gains == gains_of(closes_of(chart))
        losses == losses_of(closes_of(chart))
        avg_gain == FDiv(sum(SubSeq(gains, k - indicators.period, k - 1)),
                         Num(indicators.period))
        avg_loss == FDiv(sum(SubSeq(losses, k - indicators.period, k - 1)),
                         Num(indicators.period))
    IN  IF avg_loss = 0 THEN Num(100)
        ELSE FSub(Num(100), FDiv(Num(100), FAdd(Num(1), FDiv(avg_gain, avg_loss))))

StrictlyRising ==
    \A k \in 1..(Len(chart) - 1) : chart[k].close < chart[k + 1].close

C25_RsiAlignment ==
    (Computed /\ Len(chart) >= indicators.period + 1) =>
        /\ \A k \in (indicators.period + 1)..Len(chart) :
              indicators.rsi.values[k] = AlignedRsi(k)
        /\ StrictlyRising =>
              /\ indicators.rsi.values[Len(chart)] > Num(70)
              /\ HighRisk_rsi_signal(indicators.rsi.values) = "SELL"

\* ----------------------------------------------------------------------
\* C27  No indicator raises on a zero denominator, and each such case has a
\* defined value: %K of stochastic is 50 and williams_r is -50 when the
\* highest high of the window equals its lowest low, cci is 0 when the mean
\* deviation is 0, the two DI of adx are 0 when the averaged true range is
\* 0, DX is 0 when the two DI add up to 0, and rsi is 100 when the average
\* loss is 0.
NoneRaised ==
    /\ ~indicators.rsi.raised
    /\ ~indicators.stochastic.raised
    /\ ~indicators.williams_r.raised
    /\ ~indicators.cci.raised
    /\ ~indicators.adx.raised

\* the window of period candles that ends at candle k has no range
NoRange(k) ==
    max(SubSeq(highs_of(chart), k - indicators.period + 1, k))
        = min(SubSeq(lows_of(chart), k - indicators.period + 1, k))

\* "tr_sma" of adx at the element k of "tr_values"
TrSma(k) ==
    FDiv(sum(SubSeq(tr_values_of(highs_of(chart), lows_of(chart), closes_of(chart)),
                    k - indicators.period + 1, k)),
         Num(indicators.period))

\* "avg_losses" of rsi
AvgLosses == sma(losses_of(closes_of(chart)), indicators.period)

\* what adx appends at the element k of "di_plus" when DX is 0
AdxOfZeroDx(k) ==
    IF k = indicators.period THEN 0
    ELSE FDiv(FAdd(FMul(indicators.adx.values[k], Num(indicators.period - 1)), 0),
              Num(indicators.period))

C27_ZeroDenominators ==
    Computed =>
        /\ NoneRaised
        /\ \A k \in indicators.period..Len(chart) :
              /\ NoRange(k) =>
                    /\ indicators.stochastic.k_percent[k] = Num(50)
                    /\ indicators.williams_r.values[k] = Num(-50)
              /\ ZeroDeviation(k) => indicators.cci.values[k] = 0
        /\ \A k \in indicators.period..(Len(chart) - 1) :
              /\ TrSma(k) = 0 =>
                    /\ indicators.adx.di_plus[k] = 0
                    /\ indicators.adx.di_minus[k] = 0
              /\ FAdd(indicators.adx.di_plus[k], indicators.adx.di_minus[k]) = 0 =>
                    indicators.adx.values[k + 1] = AdxOfZeroDx(k)
        /\ \A k \in (indicators.period + 1)..(Len(chart) - 1) :
              AvgLosses[k] = 0 => indicators.rsi.values[k] = Num(100)

\* a chart of flat candles at one price, long enough that every one of the
\* zero denominators occurs
C27_Witness ==
    /\ Computed
    /\ NoneRaised
    /\ Len(chart) >= indicators.period + 2
    /\ NoRange(Len(chart))
    /\ indicators.stochastic.k_percent[Len(chart)] = Num(50)
    /\ ZeroDeviation(Len(chart))
    /\ TrSma(Len(chart) - 1) = 0
    /\ indicators.adx.values[Len(chart)] = 0
    /\ AvgLosses[Len(chart) - 1] = 0
    /\ indicators.rsi.values[Len(chart) - 1] = Num(100)

\* ----------------------------------------------------------------------
\* C26  With confidence_threshold = 0.9 a strategy of any variant returns
\* HOLD whenever the mean weight of the fired sub-rules is below 0.9; the
\* HIGH and the MEDIUM variant return HOLD on every input, and the LOW
\* variant returns BUY or SELL only when sub-rule 1, the one of weight 0.9,
\* is the only sub-rule that fired.
\* the weight a score stands for, in tenths
TenthsOf(score) == CHOOSE k \in 0..10 : Tenths(k) = score

FiredRules == {i \in SubRules : market.fired[i] # "none"}

\* the exact sum, in tenths, of the weights of the fired sub-rules 1..i
RECURSIVE FiredTenths(_)
FiredTenths(i) ==
    IF i = 0 THEN 0
    ELSE FiredTenths(i - 1)
         + (IF i \in FiredRules THEN TenthsOf(ScoresOf(strategy.risk_level)[i]) ELSE 0)

\* the mean weight of the fired sub-rules is below k tenths (0 if none fired)
MeanBelow(k) ==
    IF FiredRules = {} THEN 0 < k
    ELSE FiredTenths(8) < k * Cardinality(FiredRules)

C26_StrictThreshold ==
    (analysis # NoAnalysis /\ strategy.config.confidence_threshold = Tenths(9)) =>
        /\ MeanBelow(9) => analysis.signal = "HOLD"
        /\ strategy.risk_level \in {"HIGH", "MEDIUM"} => analysis.signal = "HOLD"
        /\ analysis.signal \in {"BUY", "SELL"} =>
              /\ strategy.risk_level = "LOW"
              /\ TenthsOf(LowRiskScores[1]) = 9
              /\ FiredRules = {1}
              /\ analysis.signal = market.fired[1]

\* the LOW variant buys on its trend rule alone
C26_Witness ==
    /\ strategy.risk_level = "LOW"
    /\ strategy.config.confidence_threshold = Tenths(9)
    /\ FiredRules = {1}
    /\ analysis.evaluated
    /\ analysis.signal = "BUY"
    /\ analysis.confidence = Tenths(9)

\* ----------------------------------------------------------------------
\* C29  A forced close adds 1 to total_trades of the strategy whose exit
\* check made it, adds the realized PnL of the close to its total_pnl and
\* adds 1 to its winning_trades if and only if that PnL is above 0; a tick
\* without a forced close leaves the three counters alone; in every state
\* 0 <= winning_trades <= total_trades; and no step of the engine changes
\* confidence_threshold, max_daily_trades, stop_loss_pct, take_profit_pct,
\* the leverage bounds or the position size of a strategy.
\* the forced closes the strategy's exit check made on the tick just taken
ForcedCloses(id) ==
    {i \in DOMAIN changes' : changes'[i].config_id = id /\ changes'[i].op \in ExitReasons}

\* the PnL the position that was closed had made at the price it was closed at
RealizedPnl(change) ==
    IF change.pre.side = "BUY"
    THEN FMul(FSub(change.price, change.pre.entry_price), change.pre.qty)
    ELSE FMul(FSub(change.pre.entry_price, change.price), change.pre.qty)

\* the row of the strategy but for its three cumulative counters
Settings(config) ==
    [config EXCEPT !.total_trades = 0, !.total_pnl = 0, !.winning_trades = 0]

CountersInRange ==
    \A id \in ConfigIds :
        0 <= configs[id].winning_trades
        /\ configs[id].winning_trades <= configs[id].total_trades

CountedOnce ==
    \A id \in ConfigIds :
        /\ Settings(configs'[id]) = Settings(configs[id])
        /\ ~EngineTicks => configs'[id] = configs[id]
        /\ EngineTicks =>
              /\ Cardinality(ForcedCloses(id)) <= 1
              /\ configs'[id].total_trades
                    = configs[id].total_trades + Cardinality(ForcedCloses(id))
              /\ ForcedCloses(id) = {} =>
                    /\ configs'[id].total_pnl = configs[id].total_pnl
                    /\ configs'[id].winning_trades = configs[id].winning_trades
              /\ \A i \in ForcedCloses(id) :
                    /\ configs'[id].total_pnl
                          = FAdd(configs[id].total_pnl, RealizedPnl(changes'[i]))
                    /\ configs'[id].winning_trades
                          = configs[id].winning_trades
                            + (IF RealizedPnl(changes'[i]) > 0 THEN 1 ELSE 0)

C29_CumulativeCounters ==
    [](CountersInRange) /\ [][CountedOnce]_vars

\* a take-profit close that made a profit and was counted as a winning trade
C29_Witness ==
    /\ \E i \in DOMAIN changes :
           changes[i].config_id = 1 /\ changes[i].op = "TAKE_PROFIT"
    /\ configs[1].total_trades = 1
    /\ configs[1].winning_trades = 1
    /\ configs[1].total_pnl > 0

\* ----------------------------------------------------------------------
\* C28  A request to create a strategy of a risk level other than HIGH,
\* MEDIUM or LOW (in any case) is answered with an error: no row of such a
\* risk level is ever stored, no such strategy is ever loaded, and no
\* iteration of the loop processes one.
Known(config) == upper(config.risk_level) \in RiskLevels

NeverStored == \A id \in ConfigIds : configs[id].present => Known(configs[id])

NeverLoaded == \A id \in ConfigIds : active_strategies[id].loaded => Known(configs[id])

NeverInLoop == \A id \in ConfigIds : Processed(id) # {} => Known(configs[id])

C28_UnknownRiskLevel == NeverStored /\ NeverLoaded /\ NeverInLoop

\* C30: the trade ledger is append-only.  Whatever is done (a trade, a close, a
\* forced exit by the engine, a strategy deleted, a performance reset), every
\* row the trades table held before is still there afterwards, at its place
\* and with the symbol, side, price, qty and pnl it was saved with, and the
\* table holds one row per trade saved.  The reset-performance operation of an
\* existing strategy removes no row of the table; it leaves the strategy's
\* total_trades, winning_trades and total_pnl 0 and its log rows deleted.
StillPresent ==
    /\ Len(trades') >= Len(trades)
    /\ SubSeq(trades', 1, Len(trades)) = trades
    /\ Len(trades') = ntrades'
    /\ \A i \in DOMAIN trades' : trades'[i].saved

ResetClears ==
    \A config_id \in ConfigIds :
        configs[config_id].present /\ reset_strategy_performance(config_id) =>
            /\ configs'[config_id].total_trades = 0
            /\ configs'[config_id].winning_trades = 0
            /\ configs'[config_id].total_pnl = 0
            /\ nlogs'[config_id] = 0
            /\ trades' = trades

C30_AppendOnlyLedger ==
    [][StillPresent /\ ResetClears]_vars

\* a strategy whose engine was forced out of a position at a profit was reset:
\* its counters are 0 and the entry and the exit are still in the ledger
C30_Witness ==
    /\ last.op = "reset_strategy_performance"
    /\ last.branch = "ok"
    /\ configs[1].total_trades = 0
    /\ configs[1].total_pnl = 0
    /\ \E i \in DOMAIN trades : trades[i].pnl > 0
    /\ \E i \in DOMAIN changes : changes[i].op \in ExitReasons

\* a strategy was deleted and the trades its engine saved are still in the ledger
C30_DeletedWitness ==
    /\ last.op = "delete_strategy"
    /\ ~configs[1].present
    /\ \E i \in DOMAIN changes : trades[Len(trades)] = changes[i].trade

\* C31 (as claimed): in every tick the strategies the loop evaluates are the
\* strategies marked active when the tick starts: every one of them is
\* entry-processed, and a deactivated strategy is not processed and has no
\* runtime state (daily counter, last analysis) in the engine, also after the
\* engine was stopped and started again.
MarkedActive(id) == configs[id].present /\ configs[id].is_active

EntryProcessed(id) == \E i \in DOMAIN trace' : trace'[i] = Step("_process_strategy", id)

C31_EvaluatesActiveSet ==
    [][ticks' = ticks + 1 =>
          \A id \in ConfigIds :
              /\ EntryProcessed(id) <=> MarkedActive(id)
              /\ ~MarkedActive(id) => active_strategies[id] = NotLoaded]_vars

\* C32: at most one engine loop runs.  After any sequence of start and stop
\* calls at most one task of start_engine is alive, it is the shared task, and
\* the engine's flag is set exactly when there is one.  A start while a loop
\* runs answers an error, creates no task and changes nothing of the engine;
\* no step creates a task while one is alive, and a start after a stop
\* creates exactly one task, a new one.
LiveTasks == {task \in TaskIds : engine_tasks[task] = "running"}

AtMostOneLoop ==
    /\ Cardinality(LiveTasks) <= 1
    /\ running <=> LiveTasks # {}
    /\ LiveTasks = IF shared_engine_task = 0 THEN {} ELSE {shared_engine_task}

StartStopStep ==
    /\ LiveTasks # {} => LiveTasks' \subseteq LiveTasks
    /\ reply # "error" /\ reply' = "error" =>
           /\ LiveTasks # {}
           /\ UNCHANGED <<engine_tasks, shared_engine_task, ledger_vars, runner_vars>>
    /\ LiveTasks # {} /\ starts' # starts => FALSE
    /\ LiveTasks = {} /\ LiveTasks' # {} =>
           /\ Cardinality(LiveTasks') = 1
           /\ \A task \in LiveTasks' : engine_tasks[task] = "none"
           /\ starts' = starts + 1
           /\ reply' = "ok"

RECURSIVE Total(_, _)
Total(list, n) == IF n = 0 THEN 0 ELSE FAdd(Total(list, n - 1), list[n])

MeanOf(list) == FDiv(Total(list, Len(list)), Num(Len(list)))

C33_SmaEmaWarmUp ==
    Computed =>
        LET data == closes_of(chart)
            period == indicators.period
        IN  /\ Len(indicators.sma) = Len(data)
            /\ Len(indicators.ema) = Len(data)
            /\ \A k \in 1..Len(data) :
                   /\ k < period \/ Len(data) < period =>
                          indicators.sma[k] = 0 /\ indicators.ema[k] = 0
                   /\ k >= period =>
                          indicators.sma[k] = MeanOf(SubSeq(data, k - period + 1, k))
            /\ Len(data) >= period =>
                   indicators.ema[period] = MeanOf(SubSeq(data, 1, period))

\* averages over closes that differ, with candles before and after the first
\* full window
C33_Witness ==
    /\ Computed
    /\ indicators.period = 2
    /\ Len(chart) = 3
    /\ indicators.sma[1] = 0
    /\ indicators.sma[2] # indicators.sma[3]
    /\ indicators.sma[3] \notin {chart[2].close, chart[3].close}
    /\ indicators.ema[2] = indicators.sma[2]

\* C34 (as claimed): the trade saved by a forced close (stop-loss or
\* take-profit) carries the side opposite to the side the position had before
\* the close, the quantity held before the close, and the PnL realized on
\* that quantity at the closing price.
ForcedCloseRows == {i \in DOMAIN changes : changes[i].op \in ExitReasons}

C34_ForcedCloseRecord ==
    \A i \in ForcedCloseRows :
        LET held == changes[i].pre
            trade == changes[i].trade
        IN  /\ trade.side = Opposite(held.side)
            /\ trade.qty = held.qty
            /\ trade.pnl = pnl_of(held.side, held.entry_price, trade.price, held.qty)

\* C34 (as claimed), the close endpoint of the multi-symbol service: the trade
\* of close_symbol_position carries the side opposite to the side held
ClosedSymbolRecord ==
    last.op = "close_symbol" => last.trade.side = Opposite(last.pre.side)

\* C35 (as claimed): unrealized PnL is consistent in every reachable state.
\* A position with qty > 0 has unrealized_pnl = (latest_price - entry_price)
\* * qty when it is a BUY and (entry_price - latest_price) * qty when it is a
\* SELL, and a flat position has unrealized_pnl 0.
C35_UnrealizedConsistent ==
    \A symbol \in Symbols :
        LET position == positions[symbol]
        IN  position.present =>
                IF position.qty > 0
                THEN position.unrealized_pnl =
                         pnl_of(position.side, position.entry_price,
                                position.latest_price, position.qty)
                ELSE position.unrealized_pnl = 0

\* C36: the three implementations of the trade-application transition are
\* equivalent.  From the position a trade handler found and for its (side,
\* price, qty) with qty > 0, update_position_on_trade of main,
\* _update_position_on_real_trade and _update_position_on_trade of the
\* multi-symbol service return the same realized PnL and leave the same
\* position row, and they are what the handler returned and left.
C36_SameTransition ==
    last.op \in TradeOps /\ last.qty > 0 =>
        LET main == update_position_on_trade(last.pre, last.side, last.price, last.qty)
            real == _update_position_on_real_trade(last.pre, last.side, last.price, last.qty)
            multi == _update_position_on_trade(last.pre, last.side, last.price, last.qty)
        IN  /\ main.pnl = real.pnl /\ real.pnl = multi.pnl
            /\ main.position = real.position /\ real.position = multi.position
            /\ last.pnl = main.pnl
            /\ positions[last.symbol] = main.position

\* a trade larger than the opposite position it met: closed at a profit or a
\* loss and reopened on the other side
C36_Witness ==
    /\ last.op = "real_order"
    /\ last.branch = "flip"
    /\ last.pnl # 0
    /\ positions[last.symbol].side = last.side
    /\ positions[last.symbol].qty > 0

\* C37 (as claimed): a close request never realizes PnL on more than is held.
\* For POST /api/position/close and for close_symbol_position, the quantity
\* recorded on the closing trade and used for the realized PnL is the smaller
\* of the requested quantity and the quantity held before the close, and the
\* quantity held when none is requested.
CloseOps == {"close", "close_symbol"}

ClosedQty == IF last.given THEN min(<<last.qty, last.pre.qty>>) ELSE last.pre.qty

C37_ClosedQtyCapped ==
    last.op \in CloseOps =>
        /\ last.trade.qty = ClosedQty
        /\ last.pnl = pnl_of(last.pre.side, last.pre.entry_price, last.price, ClosedQty)
        /\ last.trade.pnl = last.pnl

\* what holds of the close endpoint of main alone
MainCloseCapped ==
    last.op = "close" =>
        /\ last.trade.qty = ClosedQty
        /\ last.pnl = pnl_of(last.pre.side, last.pre.entry_price, last.price, ClosedQty)

\* the exit check of the last iteration raised while it looked at the
\* position of this strategy
ExitCheckRaised(id) == ticks > 0 /\ tick[id].ran /\ tick[id].exit = "error"

\* C38: when the exit check of an iteration raises at the position of one
\* strategy, the exit conditions of every other loaded strategy are evaluated
\* in that iteration all the same.
C38_ExitCheckIsolation ==
    \A id \in ConfigIds :
        ExitCheckRaised(id) =>
            \A other \in ConfigIds \ {id} :
                (active_strategies[other].loaded /\ tick[other].ran) =>
                    tick[other].exit # "none"

\* the ENTRY logs the runner wrote for the strategy on the last tick
EntryLogsOf(id) == {i \in StepsOf("ENTRY") : trace[i].config_id = id}

\* what the last tick added to the daily counter of the strategy
CountedOf(id) == active_strategies[id].daily_trades - tick[id].counter

\* C39: the daily counter of a strategy goes up in a tick exactly when an
\* entry was executed in that tick.  An order that is rejected or not filled
\* leaves the counter, the position and the entry log as they were, and a
\* filled order is counted once and logged once.
C39_CountsExecutedEntries ==
    \A id \in ConfigIds :
        tick[id].ran =>
            /\ (CountedOf(id) > 0) <=> (EntriesOf(id) # {})
            /\ tick[id].outcome = "rejected" =>
                    /\ CountedOf(id) = 0
                    /\ tick[id].traded = 0
                    /\ EntryLogsOf(id) = {}
            /\ EntriesOf(id) # {} =>
                    /\ CountedOf(id) = 1
                    /\ Cardinality(EntryLogsOf(id)) = 1

\* in simulation mode an entry is counted once and logged once, and a tick
\* without an entry leaves the counter alone
SimulationCounts ==
    \A id \in ConfigIds :
        (tick[id].ran /\ mode = "SIMULATION") =>
            IF EntriesOf(id) # {}
            THEN CountedOf(id) = 1 /\ Cardinality(EntryLogsOf(id)) = 1
            ELSE CountedOf(id) = 0

\* the closes of the chart are all the same
ConstantCloses == \A k \in DOMAIN chart : chart[k].close = chart[1].close

\* C40: analyze_market returns for every variant on every chart that is long
\* enough, a market of equal closes and one whose close before the last is 0
\* included: none of the divisions for bb_position, the ATR ratio and the
\* change of the last close raises.
C40_AnalyzeMarketTotal ==
    quotients # NoQuotients => ~quotients.raised

\* on equal closes the bands coincide and bb_position is not a number, but
\* nothing raises unless the closes are 0 and the volume surges
ConstantClosesReturn ==
    (quotients # NoQuotients /\ ConstantCloses /\ chart[1].close > 0) =>
        /\ ~quotients.raised
        /\ quotients.bb_position.computed /\ ~quotients.bb_position.finite

\* the medium variant divides for bb_position only and never raises
MediumReturns == quotients.risk_level = "MEDIUM" => ~quotients.raised

\* the high variant raises on a close of 0 before a positive last close
PrevCloseZeroRaises ==
    (quotients.risk_level = "HIGH" /\ chart[Len(chart) - 1].close = 0
       /\ chart[Len(chart)].close > 0) =>
        quotients.price_change.raised

====
